---- MODULE Spec2Model ----
(***************************************************************************)
(* Vegetarian menu analyzer: the API service (request-id middleware,       *)
(* /process-menu, /review, the in-memory ReviewStore) and the MCP          *)
(* classification tool (classify_and_calculate, calculator).               *)
(*                                                                         *)
(* Units.  Prices and sums are integers in thousandths of a currency unit  *)
(* (9.99 is 9990), so that round(x, 2) is a real operation.  Confidences   *)
(* and similarity scores are integers in ten-thousandths (0.7 is 7000).    *)
(* Strings that the code transforms (dish names) are sequences of          *)
(* one-character strings; strings it only copies are TLA+ strings.         *)
(***************************************************************************)
EXTENDS Integers, Sequences, FiniteSets, TLC

VARIABLES
    store,            \* ReviewStore._store: request_id -> stored MCP result
    req,              \* the request handled last by the API service
    resp,             \* the response returned to it
    consumed,         \* history: ids reviewed successfully, nothing stored since
    usedIds,          \* history: request ids seen so far (uuid4 freshness)
    reviewed,         \* history: the stored_result the last /review read
    mcpCall,          \* history: the payload the last request sent to the MCP server
    mcpIn,            \* ClassifyAndCalculateInput of the MCP call in progress
    classifications,  \* execute(): the classifications list built so far
    mcpOut,           \* execute(): the envelope returned, or NoOutput
    signals,          \* history: what the three services answered for each item
    content,          \* LLMClassifier.classify: the reply of the chat call
    llmOut,           \* LLMClassifier.classify: what it returned
    kwIn,             \* KeywordClassifier.classify: dish_name and description
    kwOut,            \* KeywordClassifier.classify: what it returned
    texts,            \* TextParser.parse: the OCR texts
    parsedItems,      \* TextParser.parse: what it returned
    rag_service,      \* RAGService: _initialized, the collection, the seed file
    ragCall,          \* history: the last call of the RAGService and what it did
    running,          \* the /review task that holds the event loop, or 0
    task              \* the /review requests in flight: position and locals

apiVars == <<store, req, resp, consumed, usedIds, reviewed, mcpCall>>
mcpVars == <<mcpIn, classifications, mcpOut, signals>>
llmVars == <<content, llmOut>>
kwVars == <<kwIn, kwOut>>
parserVars == <<texts, parsedItems>>
ragVars == <<rag_service, ragCall>>
taskVars == <<running, task>>
auxVars == <<rag_service, ragCall, running, task>>
unitVars == <<content, llmOut, kwIn, kwOut, texts, parsedItems, rag_service, ragCall,
              running, task>>
vars == <<store, req, resp, consumed, usedIds, reviewed, mcpCall, mcpIn,
          classifications, mcpOut, signals, content, llmOut, kwIn, kwOut,
          texts, parsedItems, rag_service, ragCall, running, task>>

(***************************************************************************)
(* Bounds                                                                  *)
(***************************************************************************)
MaxItems == 3         \* menu items per /process-menu request
MaxCorrections == 2   \* corrections per /review request
MaxMcpItems == 3      \* menu items per classify_and_calculate call

(***************************************************************************)
(* Small helpers                                                           *)
(***************************************************************************)
SetMin(S) == CHOOSE x \in S : \A y \in S : x <= y
SetMax(S) == CHOOSE x \in S : \A y \in S : x >= y
MinOf(a, b) == IF a <= b THEN a ELSE b

SeqsUpTo(S, n) == UNION { [1..k -> S] : k \in 0..n }

RECURSIVE SumPrices(_)
\* sum(item.price for item in items)
SumPrices(items) ==
    IF items = <<>> THEN 0 ELSE Head(items).price + SumPrices(Tail(items))

\* round(x, 2) on thousandths: the nearest hundredth.  Python decides an exact
\* decimal tie by the binary value of the float; the price domains of this
\* module hold even thousandths only, so no sum is a tie.
Round2(m) ==
    LET q == m \div 10
        r == m % 10
    IN  IF r < 5 THEN 10 * q
        ELSE IF r > 5 THEN 10 * (q + 1)
        ELSE IF q % 2 = 0 THEN 10 * q ELSE 10 * (q + 1)

(***************************************************************************)
(* Strings: str.lower(), str.strip()                                       *)
(***************************************************************************)
UpperLetters ==
    <<"A", "B", "C", "D", "E", "F", "G", "H", "I", "J", "K", "L", "M",
      "N", "O", "P", "Q", "R", "S", "T", "U", "V", "W", "X", "Y", "Z">>
LowerLetters ==
    <<"a", "b", "c", "d", "e", "f", "g", "h", "i", "j", "k", "l", "m",
      "n", "o", "p", "q", "r", "s", "t", "u", "v", "w", "x", "y", "z">>

\* the lower-case letter of each upper-case letter
LowerTable ==
    [c \in { UpperLetters[k] : k \in 1..26 } |->
        LowerLetters[CHOOSE k \in 1..26 : UpperLetters[k] = c]]

LowerChar(c) == IF c \in DOMAIN LowerTable THEN LowerTable[c] ELSE c

Lower(s) == [i \in 1..Len(s) |-> LowerChar(s[i])]

IsSpace(c) == c \in {" ", "\t"}

Strip(s) ==
    LET keep == { i \in 1..Len(s) : ~IsSpace(s[i]) }
    IN  IF keep = {} THEN <<>> ELSE SubSeq(s, SetMin(keep), SetMax(keep))

Digits == <<"0", "1", "2", "3", "4", "5", "6", "7", "8", "9">>

IsDigit(c) == \E k \in 1..10 : Digits[k] = c

\* int(c) for a digit character
DigitValue(c) == (CHOOSE k \in 1..10 : Digits[k] = c) - 1

\* the characters are decimal digits, at least one
IsDigits(cs) == cs # <<>> /\ \A i \in 1..Len(cs) : IsDigit(cs[i])

RECURSIVE DigitsValue(_)
\* int(cs) for a sequence of digits (0 for the empty sequence)
DigitsValue(cs) ==
    IF cs = <<>> THEN 0
    ELSE 10 * DigitsValue(SubSeq(cs, 1, Len(cs) - 1)) + DigitValue(cs[Len(cs)])

RECURSIVE Pow10(_)
Pow10(n) == IF n = 0 THEN 1 ELSE 10 * Pow10(n - 1)

\* the lookup key of review.py: name.lower().strip()
NameKey(name) == Strip(Lower(name))

(***************************************************************************)
(* Input domains                                                           *)
(***************************************************************************)
RequestIds == {"r1", "r2"}
NoHeader == "none"
NoReview == [status |-> "absent"]
NoOutput == [status |-> "none"]
\* the value of a result variable before its operation has run
NotRun == [ran |-> FALSE]
\* no classify_and_calculate call was made
NoCall == [request_id |-> "none"]

\* dish names as the parser emits them (trimmed, inner whitespace collapsed)
NameSalad == <<"A", "b", " ", "c">>
NameDal == <<"D", "a", "l">>
NameFig == <<"f", "i", "g">>
NamePea == <<"P", "e", "a">>
DishNames == {NameSalad, NameDal, NameFig, NamePea}
\* the dishes on the menus of the interleaved specification
SessionDishNames == {NameSalad, NameDal}

\* names a client may type into a correction
NameSaladCase == <<" ", "a", "B", " ", "C", " ">>
NameSaladWide == <<"A", "b", " ", " ", "c">>
NameOther == <<"x", "y", "z">>

\* parser prices have two decimals: multiples of 10 thousandths
ParserPrice(name) ==
    CASE name = NameSalad -> 9990
      [] name = NameDal -> 1250
      [] name = NameFig -> 20
      [] OTHER -> 14000



(***************************************************************************)
(* MCP server: classification signals                                      *)
(***************************************************************************)
confidence_threshold == 7000

NoLlm == [ok |-> FALSE]
LlmResult(v, c, why) ==
    [ok |-> TRUE, is_vegetarian |-> v, confidence |-> c, reasoning |-> why]

\* what llm_classifier.classify may return for an item
LlmResults ==
    { NoLlm,
      LlmResult(TRUE, 9500, "only vegetables"),
      LlmResult(TRUE, 6949, "may contain stock"),
      LlmResult(FALSE, 9200, "contains meat") }

KeywordResult(definite, v, c, kws) ==
    [definite |-> definite, is_vegetarian |-> v, confidence |-> c,
     matched_keywords |-> kws]

\* the four results keyword_classifier.classify can return
KeywordResults ==
    { KeywordResult(TRUE, FALSE, 9000, <<"chicken">>),
      KeywordResult(TRUE, TRUE, 8000, <<"tofu">>),
      KeywordResult(TRUE, FALSE, 5000, <<"chicken", "tofu">>),
      KeywordResult(FALSE, FALSE, 0, <<>>) }

Evidence(dish, v, sim) ==
    [dish_name |-> dish, is_vegetarian |-> v, similarity_score |-> sim]

\* what rag_service.search may return (similarity has 3 decimals)
RagResults ==
    { <<>>,
      <<Evidence("Tofu Bowl", TRUE, 9000)>>,
      <<Evidence("Tofu Bowl", TRUE, 8010), Evidence("Beef Stew", FALSE, 8000)>>,
      <<Evidence("Beef Stew", FALSE, 9500)>>,
      <<Evidence("Beef Stew", FALSE, 8000)>>,
      <<Evidence("Beef Stew", FALSE, 7500), Evidence("Tofu Bowl", TRUE, 6000)>>,
      <<Evidence("Tofu Bowl", TRUE, 7000)>> }

NoKeyword == KeywordResult(FALSE, FALSE, 0, <<>>)

\* a service that _classify_item did not get to call
NotQueried == [ok |-> FALSE, queried |-> FALSE]

\* the answers of the three services to one item; rag_ok: rag_service.search
\* returned (it raised otherwise)
Signal(llm, keyword, rag) ==
    [llm |-> llm, keyword |-> keyword, rag |-> rag, rag_ok |-> TRUE]

\* rag_service.search raised: the other two services are not called
RagFailure ==
    [llm |-> NotQueried, keyword |-> NotQueried, rag |-> <<>>, rag_ok |-> FALSE]

\* the answers of the three services to one item that the MCP specification
\* explores: each rule of the combination, and confidences on both sides of
\* the threshold and on it
Signals ==
    { Signal(LlmResult(TRUE, 9500, "only vegetables"), NoKeyword, <<>>),
      Signal(LlmResult(TRUE, 7000, "likely vegetarian"), NoKeyword, <<>>),
      Signal(LlmResult(TRUE, 6949, "may contain stock"), NoKeyword, <<>>),
      Signal(LlmResult(FALSE, 9200, "contains meat"), NoKeyword, <<>>),
      Signal(LlmResult(FALSE, 7000, "likely meat"), NoKeyword, <<>>),
      Signal(LlmResult(TRUE, 9500, "only vegetables"),
             KeywordResult(TRUE, FALSE, 9000, <<"chicken">>), <<>>),
      Signal(LlmResult(FALSE, 9200, "contains meat"),
             KeywordResult(TRUE, TRUE, 8000, <<"tofu">>), <<>>),
      Signal(NoLlm, KeywordResult(TRUE, TRUE, 8000, <<"tofu">>), <<>>),
      Signal(NoLlm, NoKeyword, <<Evidence("Tofu Bowl", TRUE, 9000)>>),
      Signal(NoLlm, NoKeyword, <<>>) }

ClassificationResult(v, c, why, method) ==
    [is_vegetarian |-> v, confidence |-> c, reasoning |-> why, method |-> method]

\* round(confidence, 2) on ten-thousandths
RoundConf2(c) ==
    LET q == c \div 100
        r == c % 100
    IN  IF r < 50 THEN 100 * q
        ELSE IF r > 50 THEN 100 * (q + 1)
        ELSE IF q % 2 = 0 THEN 100 * q ELSE 100 * (q + 1)

RECURSIVE JoinKeywords(_)
\* ", ".join(matched_keywords)
JoinKeywords(kws) ==
    IF kws = <<>> THEN ""
    ELSE IF Len(kws) = 1 THEN kws[1]
    ELSE kws[1] \o ", " \o JoinKeywords(Tail(kws))

\* a combination that looks at the evidence before the keywords when the LLM
\* gave no answer
CombineClassificationsRagFirst(llm_result, keyword_result, rag_evidence) ==
    IF llm_result.ok
    THEN ClassificationResult(llm_result.is_vegetarian,
                              RoundConf2(llm_result.confidence),
                              llm_result.reasoning, "llm+rag")
    ELSE IF rag_evidence # <<>> /\ rag_evidence[1].similarity_score > 8000
    THEN ClassificationResult(
             rag_evidence[1].is_vegetarian,
             (rag_evidence[1].similarity_score * 8) \div 10,
             "Similar to known dish: " \o rag_evidence[1].dish_name,
             "rag")
    ELSE IF keyword_result.definite
    THEN ClassificationResult(
             keyword_result.is_vegetarian,
             keyword_result.confidence,
             "Keyword match: " \o JoinKeywords(keyword_result.matched_keywords),
             "keyword")
    ELSE ClassificationResult(
             FALSE,
             3000,
             "Unable to determine with confidence, defaulting to non-vegetarian",
             "default")

\* a combination that also boosts at a similarity of exactly 0.7
CombineClassificationsBoostFrom07(llm_result, keyword_result, rag_evidence) ==
    IF llm_result.ok
    THEN IF /\ keyword_result.confidence >= 8000
            /\ keyword_result.definite
            /\ keyword_result.is_vegetarian # llm_result.is_vegetarian
         THEN ClassificationResult(
                  llm_result.is_vegetarian,
                  MinOf(llm_result.confidence, 6000),
                  llm_result.reasoning \o " (Note: keyword analysis suggests otherwise)",
                  "combined")
         ELSE LET boosted ==
                      /\ rag_evidence # <<>>
                      /\ rag_evidence[1].similarity_score >= 7000
                      /\ rag_evidence[1].is_vegetarian = llm_result.is_vegetarian
                  confidence ==
                      IF boosted THEN MinOf(llm_result.confidence + 1000, 10000)
                      ELSE llm_result.confidence
              IN  ClassificationResult(
                      llm_result.is_vegetarian,
                      RoundConf2(confidence),
                      llm_result.reasoning,
                      "llm+rag")
    ELSE IF keyword_result.definite
    THEN ClassificationResult(
             keyword_result.is_vegetarian,
             keyword_result.confidence,
             "Keyword match: " \o JoinKeywords(keyword_result.matched_keywords),
             "keyword")
    ELSE IF rag_evidence # <<>> /\ rag_evidence[1].similarity_score > 8000
    THEN ClassificationResult(
             rag_evidence[1].is_vegetarian,
             (rag_evidence[1].similarity_score * 8) \div 10,
             "Similar to known dish: " \o rag_evidence[1].dish_name,
             "rag")
    ELSE ClassificationResult(
             FALSE,
             3000,
             "Unable to determine with confidence, defaulting to non-vegetarian",
             "default")

\* ClassifyAndCalculateTool._combine_classifications
CombineClassifications(llm_result, keyword_result, rag_evidence) ==
    IF llm_result.ok
    THEN IF /\ keyword_result.confidence >= 8000
            /\ keyword_result.definite
            /\ keyword_result.is_vegetarian # llm_result.is_vegetarian
         THEN ClassificationResult(
                  llm_result.is_vegetarian,
                  MinOf(llm_result.confidence, 6000),
                  llm_result.reasoning \o " (Note: keyword analysis suggests otherwise)",
                  "combined")
         ELSE LET boosted ==
                      /\ rag_evidence # <<>>
                      /\ rag_evidence[1].similarity_score > 7000
                      /\ rag_evidence[1].is_vegetarian = llm_result.is_vegetarian
                  confidence ==
                      IF boosted THEN MinOf(llm_result.confidence + 1000, 10000)
                      ELSE llm_result.confidence
              IN  ClassificationResult(
                      llm_result.is_vegetarian,
                      RoundConf2(confidence),
                      llm_result.reasoning,
                      "llm+rag")
    ELSE IF keyword_result.definite
    THEN ClassificationResult(
             keyword_result.is_vegetarian,
             keyword_result.confidence,
             "Keyword match: " \o JoinKeywords(keyword_result.matched_keywords),
             "keyword")
    ELSE IF rag_evidence # <<>> /\ rag_evidence[1].similarity_score > 8000
    THEN ClassificationResult(
             rag_evidence[1].is_vegetarian,
             (rag_evidence[1].similarity_score * 8) \div 10,
             "Similar to known dish: " \o rag_evidence[1].dish_name,
             "rag")
    ELSE ClassificationResult(
             FALSE,
             3000,
             "Unable to determine with confidence, defaulting to non-vegetarian",
             "default")

(***************************************************************************)
(* MCP server: batch routing and totals                                    *)
(***************************************************************************)
VegetarianItemOutput(name, price, confidence, reasoning) ==
    [name |-> name, price |-> price, confidence |-> confidence,
     reasoning |-> reasoning]

UncertainItemOutput(name, price, confidence, evidence) ==
    [name |-> name, price |-> price, confidence |-> confidence,
     evidence |-> evidence]

\* routing that takes a confidence equal to the threshold as below it
RouteOfStrict(classification) ==
    IF classification.is_vegetarian
    THEN IF classification.confidence > confidence_threshold
         THEN "confident" ELSE "uncertain"
    ELSE IF classification.confidence < confidence_threshold
         THEN "uncertain" ELSE "discarded"

\* the branch of execute()'s routing loop an (item, classification) pair takes
\* a routing that sends only vegetarian verdicts to review
RouteOfVegetarianOnly(classification) ==
    IF classification.is_vegetarian
    THEN IF classification.confidence >= confidence_threshold
         THEN "confident" ELSE "uncertain"
    ELSE "discarded"

RouteOf(classification) ==
    IF classification.is_vegetarian
    THEN IF classification.confidence >= confidence_threshold
         THEN "confident" ELSE "uncertain"
    ELSE IF classification.confidence < confidence_threshold
         THEN "uncertain" ELSE "discarded"

RECURSIVE ConfidentVegNewestFirst(_, _)
\* a confident_veg list to which each item is prepended
ConfidentVegNewestFirst(items, cls) ==
    IF items = <<>> THEN <<>>
    ELSE LET rest == ConfidentVegNewestFirst(Tail(items), Tail(cls))
             item == Head(items)
             c == Head(cls)
         IN  IF RouteOf(c) = "confident"
             THEN rest \o <<VegetarianItemOutput(item.name, item.price, c.confidence,
                                                 c.reasoning)>>
             ELSE rest

RECURSIVE ConfidentVeg(_, _)
\* execute(): the confident_veg list after the routing loop
ConfidentVeg(items, cls) ==
    IF items = <<>> THEN <<>>
    ELSE LET rest == ConfidentVeg(Tail(items), Tail(cls))
             item == Head(items)
             c == Head(cls)
         IN  IF RouteOf(c) = "confident"
             THEN <<VegetarianItemOutput(item.name, item.price, c.confidence,
                                         c.reasoning)>> \o rest
             ELSE rest

RECURSIVE Uncertain(_, _)
\* execute(): the uncertain list after the routing loop
Uncertain(items, cls) ==
    IF items = <<>> THEN <<>>
    ELSE LET rest == Uncertain(Tail(items), Tail(cls))
             item == Head(items)
             c == Head(cls)
         IN  IF RouteOf(c) = "uncertain"
             THEN <<UncertainItemOutput(item.name, item.price, c.confidence,
                                        <<c.reasoning>>)>> \o rest
             ELSE rest

\* a total that is summed but never rounded
CalculateTotalUnrounded(items) ==
    IF items = <<>> THEN 0 ELSE SumPrices(items)

\* Calculator.calculate_total
CalculateTotal(items) ==
    IF items = <<>> THEN 0 ELSE Round2(SumPrices(items))

\* an envelope that asks for a review only when nothing is confident
ExecuteOutputConfidentFirst(input_data, cls) ==
    LET confident_veg == ConfidentVeg(input_data.menu_items, cls)
        uncertain == Uncertain(input_data.menu_items, cls)
        vegetarian_total == CalculateTotal(confident_veg)
    IN  IF uncertain # <<>> /\ confident_veg = <<>>
        THEN [status |-> "needs_review",
              request_id |-> input_data.request_id,
              confident_items |-> confident_veg,
              uncertain_items |-> uncertain,
              partial_sum |-> vegetarian_total,
              classification_method |-> "llm+rag+keywords"]
        ELSE [vegetarian_items |-> confident_veg,
              total_sum |-> vegetarian_total,
              classification_method |-> "llm+rag+keywords",
              request_id |-> input_data.request_id]

\* execute() after the classification loop: routing, total, envelope
ExecuteOutput(input_data, cls) ==
    LET confident_veg == ConfidentVeg(input_data.menu_items, cls)
        uncertain == Uncertain(input_data.menu_items, cls)
        vegetarian_total == CalculateTotal(confident_veg)
    IN  IF uncertain # <<>>
        THEN [status |-> "needs_review",
              request_id |-> input_data.request_id,
              confident_items |-> confident_veg,
              uncertain_items |-> uncertain,
              partial_sum |-> vegetarian_total,
              classification_method |-> "llm+rag+keywords"]
        ELSE [vegetarian_items |-> confident_veg,
              total_sum |-> vegetarian_total,
              classification_method |-> "llm+rag+keywords",
              request_id |-> input_data.request_id]


(***************************************************************************)
(* API service: models, ReviewStore, request-id middleware                 *)
(***************************************************************************)
\* VegetarianItem declares name and price only; pydantic ignores the other
\* keyword arguments its callers pass
VegetarianItem(name, price, confidence, reasoning) ==
    [name |-> name, price |-> price]

ConfidentItem(name, price, confidence) ==
    [name |-> name, price |-> price, confidence |-> confidence]

UncertainItem(name, price, confidence, evidence) ==
    [name |-> name, price |-> price, confidence |-> confidence,
     evidence |-> evidence]

ProcessMenuResponse(vegetarian_items, total_sum) ==
    [kind |-> "final", status_code |-> 200,
     vegetarian_items |-> vegetarian_items, total_sum |-> total_sum]

NeedsReviewResponse(request_id, confident_items, uncertain_items, partial_sum) ==
    [kind |-> "needs_review", status_code |-> 200,
     status |-> "needs_review", request_id |-> request_id,
     confident_items |-> confident_items, uncertain_items |-> uncertain_items,
     partial_sum |-> partial_sum]

HTTPError(status_code, detail) ==
    [kind |-> "error", status_code |-> status_code, detail |-> detail]

\* mcp_result.get("status") == "needs_review"
IsNeedsReview(mcp_result) ==
    /\ "status" \in DOMAIN mcp_result
    /\ mcp_result.status = "needs_review"

\* ReviewStore.store
StoreReview(s, request_id, mcp_result) == [s EXCEPT ![request_id] = mcp_result]

\* a get that answers with any pending review when the id has none
GetReviewAnyId(s, request_id) ==
    IF s[request_id] # NoReview THEN s[request_id]
    ELSE IF \E r \in DOMAIN s : s[r] # NoReview
         THEN s[CHOOSE r \in DOMAIN s : s[r] # NoReview]
         ELSE NoReview

\* ReviewStore.get
GetReview(s, request_id) == s[request_id]

\* a delete that leaves the review in the store
DeleteReviewKeeps(s, request_id) == s

\* ReviewStore.delete
DeleteReview(s, request_id) == [s EXCEPT ![request_id] = NoReview]

\* RequestIDMiddleware.dispatch: the ids a request may get.  The header's
\* value when the client sent one, otherwise a uuid4, an id not seen before.
DispatchIds(header) ==
    IF header # NoHeader THEN {header} ELSE RequestIds \ usedIds

(***************************************************************************)
(* API service: /process-menu                                              *)
(***************************************************************************)
MenuItem(name) == [name |-> name, price |-> ParserPrice(name)]

\* TextParser.parse results over the dishes names: non-empty, at most
\* MaxItems items, no two with the same normalized name
ParsedMenus(names) ==
    { m \in SeqsUpTo({ MenuItem(n) : n \in names }, MaxItems) :
        /\ m # <<>>
        /\ \A i, j \in 1..Len(m) : i # j => NameKey(m[i].name) # NameKey(m[j].name) }

SessionMenus == ParsedMenus(SessionDishNames)

\* verdicts the MCP server may reach for an item of a /process-menu request
ApiVerdicts ==
    { CombineClassifications(LlmResult(TRUE, 9500, "only vegetables"), NoKeyword, <<>>),
      CombineClassifications(LlmResult(TRUE, 6949, "may contain stock"), NoKeyword, <<>>),
      CombineClassifications(LlmResult(FALSE, 9200, "contains meat"), NoKeyword, <<>>) }

\* the verdicts behind the pending reviews of the review specification: a
\* confident vegetarian one and an uncertain one
ReviewVerdicts ==
    { CombineClassifications(LlmResult(TRUE, 9500, "only vegetables"), NoKeyword, <<>>),
      CombineClassifications(LlmResult(TRUE, 6949, "may contain stock"), NoKeyword, <<>>) }

RECURSIVE ToVegetarianItems(_)
\* _process_images: the vegetarian_items of the final response
ToVegetarianItems(items) ==
    IF items = <<>> THEN <<>>
    ELSE <<VegetarianItem(Head(items).name, Head(items).price,
                          Head(items).confidence, Head(items).reasoning)>>
         \o ToVegetarianItems(Tail(items))

\* _process_images after the MCP call: the response for mcp_result
ProcessImagesResponse(request_id, mcp_result) ==
    IF IsNeedsReview(mcp_result)
    THEN NeedsReviewResponse(
             request_id,
             [i \in 1..Len(mcp_result.confident_items) |->
                 ConfidentItem(mcp_result.confident_items[i].name,
                               mcp_result.confident_items[i].price,
                               mcp_result.confident_items[i].confidence)],
             [i \in 1..Len(mcp_result.uncertain_items) |->
                 UncertainItem(mcp_result.uncertain_items[i].name,
                               mcp_result.uncertain_items[i].price,
                               mcp_result.uncertain_items[i].confidence,
                               mcp_result.uncertain_items[i].evidence)],
             mcp_result.partial_sum)
    ELSE ProcessMenuResponse(ToVegetarianItems(mcp_result.vegetarian_items),
                             mcp_result.total_sum)

\* _process_images: the store after the MCP call returned mcp_result
\* a store that drops the entry of a request answered with a Final result
ProcessImagesStoreClearing(s, request_id, mcp_result) ==
    IF IsNeedsReview(mcp_result)
    THEN StoreReview(s, request_id, mcp_result)
    ELSE [s EXCEPT ![request_id] = NoReview]

\* a store that keeps every MCP result, Final ones too
ProcessImagesStoreAlways(s, request_id, mcp_result) ==
    StoreReview(s, request_id, mcp_result)

ProcessImagesStore(s, request_id, mcp_result) ==
    IF IsNeedsReview(mcp_result)
    THEN StoreReview(s, request_id, mcp_result)
    ELSE s

\* MCPClient.classify_and_calculate: the payload posted to the MCP server
McpPayload(menu_items, request_id) ==
    [menu_items |-> menu_items, request_id |-> request_id]

\* POST /process-menu that reaches the classifier: OCR gave text, the parser
\* gave menu_items, the MCP server classified them as cls
ProcessMenu(header, menu_items, cls) ==
    \E request_id \in DispatchIds(header) :
        LET mcp_result == ExecuteOutput(
                [menu_items |-> menu_items, request_id |-> request_id], cls)
        IN  /\ store' = ProcessImagesStore(store, request_id, mcp_result)
            /\ resp' = ProcessImagesResponse(request_id, mcp_result)
            /\ req' = [op |-> "process_menu", request_id |-> request_id,
                       corrections |-> <<>>, parsed |-> TRUE,
                       menu_items |-> menu_items]
            /\ mcpCall' = McpPayload(menu_items, request_id)
            /\ consumed' = IF IsNeedsReview(mcp_result)
                           THEN consumed \ {request_id} ELSE consumed
            /\ usedIds' = usedIds \cup {request_id}
            /\ reviewed' = NoReview
            /\ UNCHANGED <<mcpVars, unitVars>>

\* a handler that sends the empty item list to the MCP server, whose input
\* validation rejects it
ProcessMenuNoItemsClassified(header) ==
    \E request_id \in DispatchIds(header) :
        /\ resp' = HTTPError(500, "MCP server error")
        /\ req' = [op |-> "process_menu", request_id |-> request_id,
                   corrections |-> <<>>, parsed |-> TRUE,
                   menu_items |-> <<>>]
        /\ mcpCall' = McpPayload(<<>>, request_id)
        /\ usedIds' = usedIds \cup {request_id}
        /\ reviewed' = NoReview
        /\ UNCHANGED <<store, consumed>>
        /\ UNCHANGED <<mcpVars, unitVars>>

\* POST /process-menu whose OCR text yields no menu item
ProcessMenuNoItems(header) ==
    \E request_id \in DispatchIds(header) :
        /\ resp' = ProcessMenuResponse(<<>>, 0)
        /\ req' = [op |-> "process_menu", request_id |-> request_id,
                   corrections |-> <<>>, parsed |-> TRUE,
                   menu_items |-> <<>>]
        /\ mcpCall' = NoCall
        /\ usedIds' = usedIds \cup {request_id}
        /\ reviewed' = NoReview
        /\ UNCHANGED <<store, consumed>>
        /\ UNCHANGED <<mcpVars, unitVars>>

\* the failures of image validation and OCR that process_menu turns into
\* HTTP errors
ProcessMenuErrors ==
    { HTTPError(400, "No images provided"),
      HTTPError(422, "No text extracted") }

\* the failures of the MCP call that process_menu turns into HTTP errors
McpCallErrors ==
    { HTTPError(503, "MCP server unavailable"),
      HTTPError(500, "MCP server error") }

\* POST /process-menu whose MCP call fails: nothing is stored
ProcessMenuMcpFails(header, menu_items, error) ==
    \E request_id \in DispatchIds(header) :
        /\ resp' = error
        /\ req' = [op |-> "process_menu", request_id |-> request_id,
                   corrections |-> <<>>, parsed |-> TRUE,
                       menu_items |-> menu_items]
        /\ mcpCall' = McpPayload(menu_items, request_id)
        /\ usedIds' = usedIds \cup {request_id}
        /\ reviewed' = NoReview
        /\ UNCHANGED <<store, consumed>>
        /\ UNCHANGED <<mcpVars, unitVars>>

\* POST /process-menu that fails before the parser runs
ProcessMenuFails(header, error) ==
    \E request_id \in DispatchIds(header) :
        /\ resp' = error
        /\ req' = [op |-> "process_menu", request_id |-> request_id,
                   corrections |-> <<>>, parsed |-> FALSE,
                   menu_items |-> <<>>]
        /\ mcpCall' = NoCall
        /\ usedIds' = usedIds \cup {request_id}
        /\ reviewed' = NoReview
        /\ UNCHANGED <<store, consumed>>
        /\ UNCHANGED <<mcpVars, unitVars>>

\* exceptions that none of the except clauses of process_menu catches and
\* that are no MenuAnalyzerError: type and str(exc)
UnexpectedExceptions ==
    { [type |-> "RuntimeError", message |-> "tesseract is not installed"],
      [type |-> "KeyError", message |-> "'confidence'"] }

\* general_exception_handler
GeneralExceptionHandler(exc) ==
    [kind |-> "error", status_code |-> 500,
     error |-> "Internal server error", detail |-> exc.message]

\* POST /process-menu in which exc is raised before the MCP call and leaves
\* the route: the application's handler for Exception answers
ProcessMenuUnexpected(header, exc) ==
    \E request_id \in DispatchIds(header) :
        /\ resp' = GeneralExceptionHandler(exc)
        /\ req' = [op |-> "process_menu", request_id |-> request_id,
                   corrections |-> <<>>, parsed |-> FALSE,
                   menu_items |-> <<>>, raised |-> exc]
        /\ mcpCall' = NoCall
        /\ usedIds' = usedIds \cup {request_id}
        /\ reviewed' = NoReview
        /\ UNCHANGED <<store, consumed>>
        /\ UNCHANGED <<mcpVars, unitVars>>

(***************************************************************************)
(* API service: /review                                                    *)
(***************************************************************************)
Correction(name, is_vegetarian) == [name |-> name, is_vegetarian |-> is_vegetarian]

\* the corrections a client may send: each spelling of the first dish as
\* vegetarian, the exact names also as not vegetarian, and an unknown name
Corrections ==
    { Correction(NameSalad, TRUE), Correction(NameSalad, FALSE),
      Correction(NameSaladCase, TRUE), Correction(NameSaladCase, FALSE),
      Correction(NameSaladWide, TRUE),
      Correction(NameDal, TRUE), Correction(NameDal, FALSE),
      Correction(NameOther, TRUE) }

\* ReviewRequest.corrections: 1..MaxCorrections corrections
CorrectionLists ==
    { c \in SeqsUpTo(Corrections, MaxCorrections) : c # <<>> }

\* the key under which review.py looks a name up
CorrectionKey(name) == NameKey(name)

\* submit_review: corrections_map, a dict comprehension (a later correction
\* with the same key replaces an earlier one)
CorrectionsMap(corrections) ==
    LET keys == { CorrectionKey(corrections[i].name) : i \in 1..Len(corrections) }
    IN  [k \in keys |->
            corrections[SetMax({ i \in 1..Len(corrections) :
                                   CorrectionKey(corrections[i].name) = k })].is_vegetarian]

RECURSIVE ConfirmedItems(_, _)
\* submit_review: the items the loop over uncertain_items appends
ConfirmedItems(uncertain_items, corrections_map) ==
    IF uncertain_items = <<>> THEN <<>>
    ELSE LET item == Head(uncertain_items)
             item_key == CorrectionKey(item.name)
             rest == ConfirmedItems(Tail(uncertain_items), corrections_map)
         IN  IF item_key \in DOMAIN corrections_map /\ corrections_map[item_key]
             THEN <<VegetarianItem(item.name, item.price, 10000,
                                   "Confirmed vegetarian by human review")>> \o rest
             ELSE rest

\* vegetarian_items with the confirmed items ahead of the confident ones
ReviewItemsConfirmedFirst(stored_result, corrections) ==
    ConfirmedItems(stored_result.uncertain_items, CorrectionsMap(corrections))
    \o ToVegetarianItems(stored_result.confident_items)

\* vegetarian_items without the confident items a correction rejects
ReviewItemsCorrectingConfident(stored_result, corrections) ==
    LET corrections_map == CorrectionsMap(corrections)
        Stays(item) == ~(/\ CorrectionKey(item.name) \in DOMAIN corrections_map
                         /\ ~corrections_map[CorrectionKey(item.name)])
    IN  ToVegetarianItems(SelectSeq(stored_result.confident_items, Stays))
        \o ConfirmedItems(stored_result.uncertain_items, corrections_map)

\* submit_review: vegetarian_items, the confident items then the confirmed ones
ReviewItems(stored_result, corrections) ==
    ToVegetarianItems(stored_result.confident_items)
    \o ConfirmedItems(stored_result.uncertain_items, CorrectionsMap(corrections))

\* a total cut to whole currency units
ReviewTotalWholeUnits(vegetarian_items) ==
    1000 * (SumPrices(vegetarian_items) \div 1000)

\* submit_review: total_sum
ReviewTotal(vegetarian_items) == Round2(SumPrices(vegetarian_items))

\* POST /review with a valid body
SubmitReview(request_id, corrections) ==
    LET stored_result == GetReview(store, request_id)
    IN  /\ req' = [op |-> "review", request_id |-> request_id,
                   corrections |-> corrections, parsed |-> FALSE,
                   menu_items |-> <<>>]
        /\ mcpCall' = NoCall
        /\ IF stored_result = NoReview
           THEN /\ resp' = HTTPError(404, "No pending review found")
                /\ UNCHANGED <<store, consumed>>
           ELSE LET vegetarian_items == ReviewItems(stored_result, corrections)
                IN  /\ store' = DeleteReview(store, request_id)
                    /\ resp' = ProcessMenuResponse(vegetarian_items,
                                                   ReviewTotal(vegetarian_items))
                    /\ consumed' = consumed \cup {request_id}
        /\ reviewed' = stored_result
        /\ UNCHANGED usedIds
        /\ UNCHANGED <<mcpVars, unitVars>>

\* POST /review whose body fails validation (corrections is empty): FastAPI
\* answers 422 and submit_review does not run
SubmitReviewInvalid(request_id) ==
    /\ req' = [op |-> "review", request_id |-> request_id, corrections |-> <<>>,
               parsed |-> FALSE,
                   menu_items |-> <<>>]
    /\ mcpCall' = NoCall
    /\ resp' = HTTPError(422, "validation error")
    /\ reviewed' = NoReview
    /\ UNCHANGED <<store, consumed, usedIds>>
    /\ UNCHANGED <<mcpVars, unitVars>>

(***************************************************************************)
(* MCP server: classify_and_calculate                                      *)
(***************************************************************************)
McpItem(name, price) == [name |-> name, price |-> price]

\* items a caller of the MCP tool may send: any name, any non-negative price
\* (even thousandths, so that no sum is an exact rounding tie)
McpItems ==
    { McpItem(NameSalad, 4), McpItem(NameDal, 1250), McpItem(NameSalad, 9996) }

\* ClassifyAndCalculateInput: 1..MaxMcpItems menu items and a request id
McpInputs ==
    { [menu_items |-> m, request_id |-> "r1"] :
        m \in SeqsUpTo(McpItems, MaxMcpItems) \ {<<>>} }

NoInput == [menu_items |-> <<>>, request_id |-> "none"]

\* the endpoint's answer when execute() raises: HTTPException(500, str(e))
ToolError(status_code, detail) ==
    [status |-> "error", status_code |-> status_code, detail |-> detail]

IsToolError(out) == "status" \in DOMAIN out /\ out.status = "error"

\* execute(): one turn of the classification loop, _classify_item on the next
\* item with the answers of the three services
ClassifyItem(llm_result, keyword_result, rag_evidence) ==
    /\ mcpOut = NoOutput
    /\ Len(classifications) < Len(mcpIn.menu_items)
    /\ classifications' = Append(classifications,
           CombineClassifications(llm_result, keyword_result, rag_evidence))
    /\ signals' = Append(signals, Signal(llm_result, keyword_result, rag_evidence))
    /\ UNCHANGED <<mcpIn, mcpOut>>
    /\ UNCHANGED <<apiVars, unitVars>>

\* execute(): a turn of the loop in which rag_service.search raises.  Nothing
\* between search and the endpoint catches it: _classify_item and execute()
\* are left and the endpoint answers 500.
ClassifyItemRagFails ==
    /\ mcpOut = NoOutput
    /\ Len(classifications) < Len(mcpIn.menu_items)
    /\ signals' = Append(signals, RagFailure)
    /\ mcpOut' = ToolError(500, "vector index query failed")
    /\ UNCHANGED <<mcpIn, classifications>>
    /\ UNCHANGED <<apiVars, unitVars>>

\* execute(): after the loop, routing, total and the envelope returned
Respond ==
    /\ mcpOut = NoOutput
    /\ mcpIn # NoInput
    /\ Len(classifications) = Len(mcpIn.menu_items)
    /\ mcpOut' = ExecuteOutput(mcpIn, classifications)
    /\ UNCHANGED <<mcpIn, classifications, signals>>
    /\ UNCHANGED <<apiVars, unitVars>>

(***************************************************************************)
(* MCP server: LLM client                                                  *)
(***************************************************************************)
\* JSON values as json.loads returns them.  A number carries the text str()
\* gives for it, a string its text and its characters.
JBool(b) == [t |-> "bool", b |-> b]
JNum(n, text) == [t |-> "number", n |-> n, text |-> text]
JStr(text, chars) == [t |-> "string", text |-> text, chars |-> chars]
JNull == [t |-> "null"]
JArray == [t |-> "array"]
JObject(fields) == [t |-> "object", fields |-> fields]

\* the outcome of a conversion or of _parse_response that raised
Raised(exception) == [ok |-> FALSE, raised |-> exception]
Converted(v) == [ok |-> TRUE, v |-> v]

\* float(cs) for the characters of a string: an optional sign, digits with at
\* most one point and a digit on one side of it (exponents, inf, nan and
\* surrounding blanks are outside the replies modelled); ten-thousandths
FloatOfChars(cs) ==
    LET signed == cs # <<>> /\ cs[1] \in {"-", "+"}
        body == IF signed THEN Tail(cs) ELSE cs
        points == { i \in 1..Len(body) : body[i] = "." }
        point == IF points = {} THEN Len(body) + 1 ELSE SetMin(points)
        whole == SubSeq(body, 1, point - 1)
        frac == SubSeq(body, point + 1, Len(body))
        wellFormed ==
            /\ Cardinality(points) <= 1
            /\ \A i \in 1..Len(whole) : IsDigit(whole[i])
            /\ \A i \in 1..Len(frac) : IsDigit(frac[i])
            /\ Len(whole) + Len(frac) > 0
            /\ Len(frac) <= 4
        magnitude == 10000 * DigitsValue(whole)
                         + DigitsValue(frac) * Pow10(4 - Len(frac))
    IN  IF ~wellFormed THEN Raised("ValueError")
        ELSE Converted(IF signed /\ cs[1] = "-" THEN 0 - magnitude ELSE magnitude)

\* bool(v)
PyBool(v) ==
    CASE v.t = "bool" -> v.b
      [] v.t = "number" -> v.n # 0
      [] v.t = "string" -> v.chars # <<>>
      [] v.t = "null" -> FALSE
      [] v.t = "array" -> FALSE
      [] OTHER -> DOMAIN v.fields # {}

\* float(v)
PyFloat(v) ==
    CASE v.t = "bool" -> Converted(IF v.b THEN 10000 ELSE 0)
      [] v.t = "number" -> Converted(v.n)
      [] v.t = "string" -> FloatOfChars(v.chars)
      [] OTHER -> Raised("TypeError")

\* str(v)
PyStr(v) ==
    CASE v.t = "bool" -> IF v.b THEN "True" ELSE "False"
      [] v.t = "number" -> v.text
      [] v.t = "string" -> v.text
      [] v.t = "null" -> "None"
      [] v.t = "array" -> "[]"
      [] OTHER -> "{...}"

\* the lines of a reply: a ``` fence, a complete JSON document, or prose
FenceLine == [kind |-> "fence"]
JsonLine(v) == [kind |-> "json", v |-> v]
ProseLine == [kind |-> "prose"]

\* json.loads of the joined lines: one JSON document and nothing else
JsonLoads(lines) ==
    IF Len(lines) = 1 /\ lines[1].kind = "json" THEN Converted(lines[1].v)
    ELSE Raised("JSONDecodeError")

\* data.get(key, default) on the object data
DictGet(data, key, default) ==
    IF key \in DOMAIN data.fields THEN data.fields[key] ELSE default

\* LLMClassifier._parse_response: the verdict, NoLlm (the except clause
\* returned None) or the exception it lets through
ParseResponse(lines) ==
    LET unfenced == IF lines # <<>> /\ lines[1].kind = "fence"
                    THEN SubSeq(lines, 2, Len(lines) - 1)
                    ELSE lines
        loaded == JsonLoads(unfenced)
    IN  IF ~loaded.ok THEN NoLlm
        ELSE IF loaded.v.t # "object" THEN Raised("AttributeError")
        ELSE LET data == loaded.v
                 is_vegetarian == PyBool(DictGet(data, "is_vegetarian", JBool(FALSE)))
                 confidence == PyFloat(DictGet(data, "confidence", JNum(5000, "0.5")))
                 reasoning == PyStr(DictGet(data, "reasoning",
                                            JStr("No reasoning provided", <<>>)))
             IN  IF ~confidence.ok
                 THEN IF confidence.raised = "ValueError" THEN NoLlm
                      ELSE Raised(confidence.raised)
                 ELSE IF confidence.v < 0 \/ confidence.v > 10000
                 THEN NoLlm
                 ELSE LlmResult(is_vegetarian, confidence.v, reasoning)

\* the chat call failed (transport error, timeout)
ChatFailed == [ran |-> TRUE, failed |-> TRUE, lines |-> <<>>]
ChatReply(lines) == [ran |-> TRUE, failed |-> FALSE, lines |-> lines]

\* LLMClassifier.classify: None for every exception of the call or the parse
LlmClassify(reply) ==
    IF reply.failed THEN NoLlm
    ELSE LET parsed == ParseResponse(reply.lines)
         IN  IF parsed.ok THEN parsed ELSE NoLlm

\* values a reply may give to a field; Absent: the field is missing
Absent == [t |-> "absent"]

IsVegetarianValues ==
    { Absent, JBool(TRUE), JBool(FALSE), JNull,
      JStr("false", <<"f", "a", "l", "s", "e">>) }

ConfidenceValues ==
    { Absent, JNum(9000, "0.9"), JNum(15000, "1.5"), JNum(0 - 1000, "-0.1"), JNull,
      JBool(TRUE),
      JStr("0.9", <<"0", ".", "9">>), JStr("high", <<"h", "i", "g", "h">>) }

ReasoningValues ==
    { Absent, JStr("only vegetables", <<"o", "n", "l", "y">>), JNum(420000, "42") }

\* the JSON object with the given values for the three fields of the contract
ReplyObject(is_vegetarian, confidence, reasoning) ==
    LET given == [is_vegetarian |-> is_vegetarian, confidence |-> confidence,
                  reasoning |-> reasoning]
    IN  JObject([k \in { f \in DOMAIN given : given[f] # Absent } |-> given[k]])

\* bodies of a reply: objects with every combination of the field values, and
\* bodies that are no object
ReplyBodies ==
    { ReplyObject(v, c, r) :
        v \in IsVegetarianValues, c \in ConfidenceValues, r \in ReasoningValues }
    \cup { JArray, JStr("vegetarian", <<"v">>), JNum(10000, "1") }

\* replies of the chat call: each body bare, in a closed fence and in a fence
\* that is never closed; prose; a failed call
ChatReplies ==
    { ChatReply(<<JsonLine(b)>>) : b \in ReplyBodies }
    \cup { ChatReply(<<FenceLine, JsonLine(b), FenceLine>>) : b \in ReplyBodies }
    \cup { ChatReply(<<FenceLine, JsonLine(b)>>) : b \in ReplyBodies }
    \cup { ChatReply(<<ProseLine>>), ChatReply(<<JsonLine(JArray), ProseLine>>),
           ChatFailed }

\* LLMClassifier.classify on the reply of the chat call
Classify ==
    /\ content # NotRun
    /\ llmOut = NotRun
    /\ llmOut' = LlmClassify(content)
    /\ UNCHANGED <<content, kwVars, parserVars>>
    /\ UNCHANGED <<apiVars, mcpVars, auxVars>>

(***************************************************************************)
(* MCP server: keyword classifier                                          *)
(***************************************************************************)
\* a dictionary entry: its text and the characters of the text
Keyword(text, chars) == [text |-> text, chars |-> chars]

\* KeywordClassifier.VEGETARIAN_KEYWORDS, in the order of the list
VEGETARIAN_KEYWORDS ==
    << Keyword("vegetarian", <<"v", "e", "g", "e", "t", "a", "r", "i", "a", "n">>),
       Keyword("veggie", <<"v", "e", "g", "g", "i", "e">>),
       Keyword("vegan", <<"v", "e", "g", "a", "n">>),
       Keyword("plant-based", <<"p", "l", "a", "n", "t", "-", "b", "a", "s", "e", "d">>),
       Keyword("meatless", <<"m", "e", "a", "t", "l", "e", "s", "s">>),
       Keyword("tofu", <<"t", "o", "f", "u">>),
       Keyword("tempeh", <<"t", "e", "m", "p", "e", "h">>),
       Keyword("seitan", <<"s", "e", "i", "t", "a", "n">>),
       Keyword("paneer", <<"p", "a", "n", "e", "e", "r">>),
       Keyword("halloumi", <<"h", "a", "l", "l", "o", "u", "m", "i">>),
       Keyword("beans", <<"b", "e", "a", "n", "s">>),
       Keyword("lentils", <<"l", "e", "n", "t", "i", "l", "s">>),
       Keyword("chickpea", <<"c", "h", "i", "c", "k", "p", "e", "a">>),
       Keyword("hummus", <<"h", "u", "m", "m", "u", "s">>),
       Keyword("falafel", <<"f", "a", "l", "a", "f", "e", "l">>),
       Keyword("dal", <<"d", "a", "l">>),
       Keyword("daal", <<"d", "a", "a", "l">>),
       Keyword("vegetable", <<"v", "e", "g", "e", "t", "a", "b", "l", "e">>),
       Keyword("veggie", <<"v", "e", "g", "g", "i", "e">>),
       Keyword("mushroom", <<"m", "u", "s", "h", "r", "o", "o", "m">>),
       Keyword("eggplant", <<"e", "g", "g", "p", "l", "a", "n", "t">>),
       Keyword("aubergine", <<"a", "u", "b", "e", "r", "g", "i", "n", "e">>),
       Keyword("zucchini", <<"z", "u", "c", "c", "h", "i", "n", "i">>),
       Keyword("courgette", <<"c", "o", "u", "r", "g", "e", "t", "t", "e">>),
       Keyword("spinach", <<"s", "p", "i", "n", "a", "c", "h">>),
       Keyword("broccoli", <<"b", "r", "o", "c", "c", "o", "l", "i">>),
       Keyword("cauliflower", <<"c", "a", "u", "l", "i", "f", "l", "o", "w", "e", "r">>),
       Keyword("cheese", <<"c", "h", "e", "e", "s", "e">>),
       Keyword("mozzarella", <<"m", "o", "z", "z", "a", "r", "e", "l", "l", "a">>),
       Keyword("parmesan", <<"p", "a", "r", "m", "e", "s", "a", "n">>),
       Keyword("cheddar", <<"c", "h", "e", "d", "d", "a", "r">>),
       Keyword("feta", <<"f", "e", "t", "a">>),
       Keyword("caprese", <<"c", "a", "p", "r", "e", "s", "e">>),
       Keyword("margherita", <<"m", "a", "r", "g", "h", "e", "r", "i", "t", "a">>),
       Keyword("primavera", <<"p", "r", "i", "m", "a", "v", "e", "r", "a">>),
       Keyword("marinara", <<"m", "a", "r", "i", "n", "a", "r", "a">>),
       Keyword("alfredo", <<"a", "l", "f", "r", "e", "d", "o">>),
       Keyword("garden", <<"g", "a", "r", "d", "e", "n">>),
       Keyword("harvest", <<"h", "a", "r", "v", "e", "s", "t">>) >>

\* KeywordClassifier.NON_VEGETARIAN_KEYWORDS, in the order of the list
NON_VEGETARIAN_KEYWORDS ==
    << Keyword("chicken", <<"c", "h", "i", "c", "k", "e", "n">>),
       Keyword("turkey", <<"t", "u", "r", "k", "e", "y">>),
       Keyword("duck", <<"d", "u", "c", "k">>),
       Keyword("poultry", <<"p", "o", "u", "l", "t", "r", "y">>),
       Keyword("wing", <<"w", "i", "n", "g">>),
       Keyword("wings", <<"w", "i", "n", "g", "s">>),
       Keyword("beef", <<"b", "e", "e", "f">>),
       Keyword("steak", <<"s", "t", "e", "a", "k">>),
       Keyword("lamb", <<"l", "a", "m", "b">>),
       Keyword("pork", <<"p", "o", "r", "k">>),
       Keyword("veal", <<"v", "e", "a", "l">>),
       Keyword("venison", <<"v", "e", "n", "i", "s", "o", "n">>),
       Keyword("bison", <<"b", "i", "s", "o", "n">>),
       Keyword("burger", <<"b", "u", "r", "g", "e", "r">>),
       Keyword("meatball", <<"m", "e", "a", "t", "b", "a", "l", "l">>),
       Keyword("meatloaf", <<"m", "e", "a", "t", "l", "o", "a", "f">>),
       Keyword("meat", <<"m", "e", "a", "t">>),
       Keyword("bacon", <<"b", "a", "c", "o", "n">>),
       Keyword("ham", <<"h", "a", "m">>),
       Keyword("sausage", <<"s", "a", "u", "s", "a", "g", "e">>),
       Keyword("salami", <<"s", "a", "l", "a", "m", "i">>),
       Keyword("pepperoni", <<"p", "e", "p", "p", "e", "r", "o", "n", "i">>),
       Keyword("prosciutto", <<"p", "r", "o", "s", "c", "i", "u", "t", "t", "o">>),
       Keyword("chorizo", <<"c", "h", "o", "r", "i", "z", "o">>),
       Keyword("pastrami", <<"p", "a", "s", "t", "r", "a", "m", "i">>),
       Keyword("corned beef", <<"c", "o", "r", "n", "e", "d", " ", "b", "e", "e", "f">>),
       Keyword("fish", <<"f", "i", "s", "h">>),
       Keyword("salmon", <<"s", "a", "l", "m", "o", "n">>),
       Keyword("tuna", <<"t", "u", "n", "a">>),
       Keyword("cod", <<"c", "o", "d">>),
       Keyword("halibut", <<"h", "a", "l", "i", "b", "u", "t">>),
       Keyword("tilapia", <<"t", "i", "l", "a", "p", "i", "a">>),
       Keyword("trout", <<"t", "r", "o", "u", "t">>),
       Keyword("shrimp", <<"s", "h", "r", "i", "m", "p">>),
       Keyword("prawn", <<"p", "r", "a", "w", "n">>),
       Keyword("lobster", <<"l", "o", "b", "s", "t", "e", "r">>),
       Keyword("crab", <<"c", "r", "a", "b">>),
       Keyword("clam", <<"c", "l", "a", "m">>),
       Keyword("mussel", <<"m", "u", "s", "s", "e", "l">>),
       Keyword("oyster", <<"o", "y", "s", "t", "e", "r">>),
       Keyword("scallop", <<"s", "c", "a", "l", "l", "o", "p">>),
       Keyword("calamari", <<"c", "a", "l", "a", "m", "a", "r", "i">>),
       Keyword("squid", <<"s", "q", "u", "i", "d">>),
       Keyword("octopus", <<"o", "c", "t", "o", "p", "u", "s">>),
       Keyword("seafood", <<"s", "e", "a", "f", "o", "o", "d">>),
       Keyword("anchovy", <<"a", "n", "c", "h", "o", "v", "y">>),
       Keyword("anchovies", <<"a", "n", "c", "h", "o", "v", "i", "e", "s">>),
       Keyword("sardine", <<"s", "a", "r", "d", "i", "n", "e">>),
       Keyword("ribs", <<"r", "i", "b", "s">>),
       Keyword("brisket", <<"b", "r", "i", "s", "k", "e", "t">>),
       Keyword("roast", <<"r", "o", "a", "s", "t">>),
       Keyword("carnitas", <<"c", "a", "r", "n", "i", "t", "a", "s">>),
       Keyword("pulled pork", <<"p", "u", "l", "l", "e", "d", " ", "p", "o", "r", "k">>) >>

\* \w of the regular expressions
IsWordChar(c) ==
    \/ \E k \in 1..26 : c = UpperLetters[k] \/ c = LowerLetters[k]
    \/ IsDigit(c)
    \/ c = "_"

\* a keyword matching anywhere, also inside a longer word
MatchAtAnywhere(text, i, kw) ==
    /\ i + Len(kw.chars) - 1 <= Len(text)
    /\ SubSeq(text, i, i + Len(kw.chars) - 1) = kw.chars

\* \b(kw)\b matches text at position i
MatchAt(text, i, kw) ==
    LET last == i + Len(kw.chars) - 1
    IN  /\ last <= Len(text)
        /\ SubSeq(text, i, last) = kw.chars
        /\ i = 1 \/ ~IsWordChar(text[i - 1])
        /\ last = Len(text) \/ ~IsWordChar(text[last + 1])

RECURSIVE FindAll(_, _, _)
\* set(pattern.findall(text)) from position i on: the scan goes left to
\* right, takes at each position the first keyword of the list that matches
\* and goes on behind the match
FindAll(keywords, text, i) ==
    IF i > Len(text) THEN {}
    ELSE LET hits == { k \in 1..Len(keywords) : MatchAt(text, i, keywords[k]) }
         IN  IF hits = {} THEN FindAll(keywords, text, i + 1)
             ELSE {keywords[SetMin(hits)].text}
                  \cup FindAll(keywords, text, i + Len(keywords[SetMin(hits)].chars))

\* the orders list(set(...)) may give to the matches
Orders(S) ==
    { o \in [1..Cardinality(S) -> S] : \A i, j \in 1..Cardinality(S) : i # j => o[i] # o[j] }

\* the text classify() searches
KeywordText(dish_name, description) ==
    Lower(IF description = <<>> THEN dish_name ELSE dish_name \o <<" ">> \o description)

\* KeywordClassifier.classify: the decision for the matches found
KeywordDecision(veg_matches, non_veg_matches) ==
    IF non_veg_matches # <<>> /\ veg_matches = <<>>
    THEN KeywordResult(TRUE, FALSE, 9000, non_veg_matches)
    ELSE IF veg_matches # <<>> /\ non_veg_matches = <<>>
    THEN KeywordResult(TRUE, TRUE, 8000, veg_matches)
    ELSE IF veg_matches # <<>> /\ non_veg_matches # <<>>
    THEN KeywordResult(TRUE, FALSE, 5000, non_veg_matches \o veg_matches)
    ELSE KeywordResult(FALSE, FALSE, 0, <<>>)

\* a call of classify(dish_name, description); no description: <<>>
KeywordCall(dish_name, description) ==
    [ran |-> TRUE, dish_name |-> dish_name, description |-> description]

\* dish names classify() is called with: those of the unit tests, and five
\* with keywords at word boundaries
DishVegetableChickenStirFry == <<"V", "e", "g", "e", "t", "a", "b", "l", "e", " ", "C", "h", "i", "c", "k", "e", "n", " ", "S", "t", "i", "r", " ", "F", "r", "y">>
DishEggsBenedict == <<"E", "g", "g", "s", " ", "B", "e", "n", "e", "d", "i", "c", "t">>
DishVegetableOmelette == <<"V", "e", "g", "e", "t", "a", "b", "l", "e", " ", "O", "m", "e", "l", "e", "t", "t", "e">>
DishSpinachFrittata == <<"S", "p", "i", "n", "a", "c", "h", " ", "F", "r", "i", "t", "t", "a", "t", "a">>
DishQuicheLorraine == <<"Q", "u", "i", "c", "h", "e", " ", "L", "o", "r", "r", "a", "i", "n", "e">>

KeywordDishNames ==
    { <<"T", "o", "f", "u", " ", "S", "t", "i", "r", " ", "F", "r", "y">>,
      <<"G", "r", "i", "l", "l", "e", "d", " ", "C", "h", "i", "c", "k", "e", "n", " ", "B", "r", "e", "a", "s", "t">>,
      <<"V", "e", "g", "e", "t", "a", "r", "i", "a", "n", " ", "P", "a", "s", "t", "a">>,
      <<"V", "e", "g", "g", "i", "e", " ", "B", "u", "r", "g", "e", "r">>,
      <<"P", "a", "n", "e", "e", "r", " ", "T", "i", "k", "k", "a">>,
      <<"M", "u", "s", "h", "r", "o", "o", "m", " ", "R", "i", "s", "o", "t", "t", "o">>,
      <<"F", "a", "l", "a", "f", "e", "l", " ", "W", "r", "a", "p">>,
      <<"H", "u", "m", "m", "u", "s", " ", "P", "l", "a", "t", "e">>,
      <<"B", "e", "e", "f", " ", "S", "t", "e", "a", "k">>,
      <<"G", "r", "i", "l", "l", "e", "d", " ", "S", "a", "l", "m", "o", "n">>,
      <<"B", "a", "c", "o", "n", " ", "B", "u", "r", "g", "e", "r">>,
      <<"S", "h", "r", "i", "m", "p", " ", "S", "c", "a", "m", "p", "i">>,
      <<"P", "o", "r", "k", " ", "R", "i", "b", "s">>,
      <<"D", "u", "c", "k", " ", "C", "o", "n", "f", "i", "t">>,
      DishVegetableChickenStirFry,
      <<"S", "p", "e", "c", "i", "a", "l", " ", "o", "f", " ", "t", "h", "e", " ", "D", "a", "y">>,
      <<"H", "o", "u", "s", "e", " ", "S", "p", "e", "c", "i", "a", "l">>,
      <<"T", "O", "F", "U", " ", "S", "T", "I", "R", " ", "F", "R", "Y">>,
      <<"T", "u", "n", "a", " ", "T", "a", "r", "t", "a", "r", "e">>,
      <<"L", "o", "b", "s", "t", "e", "r", " ", "B", "i", "s", "q", "u", "e">>,
      <<"C", "a", "l", "a", "m", "a", "r", "i">>,
      <<"S", "h", "r", "i", "m", "p", " ", "C", "o", "c", "k", "t", "a", "i", "l">>,
      <<"F", "o", "u", "r", " ", "C", "h", "e", "e", "s", "e", " ", "P", "i", "z", "z", "a">>,
      DishEggsBenedict,
      DishVegetableOmelette,
      DishSpinachFrittata,
      DishQuicheLorraine,
      <<"C", "h", "i", "c", "k", "e", "n", " ", "W", "i", "n", "g", "s">>,
      <<"H", "a", "m", "b", "u", "r", "g", "e", "r">>,
      <<"C", "o", "r", "n", "e", "d", " ", "B", "e", "e", "f", " ", "H", "a", "s", "h">>,
      <<"P", "l", "a", "n", "t", "-", "B", "a", "s", "e", "d", " ", "B", "o", "w", "l">>,
      <<"M", "u", "s", "h", "r", "o", "o", "m", "s">> }

\* descriptions: none, and two that name ingredients
DescriptionTofu == <<"M", "a", "d", "e", " ", "w", "i", "t", "h", " ", "f", "r", "e", "s", "h", " ", "t", "o", "f", "u", " ", "a", "n", "d", " ", "v", "e", "g", "e", "t", "a", "b", "l", "e", "s">>
DescriptionBacon == <<"w", "i", "t", "h", " ", "b", "a", "c", "o", "n", " ", "b", "i", "t", "s">>

KeywordCalls ==
    { KeywordCall(n, d) :
        n \in KeywordDishNames, d \in {<<>>, DescriptionTofu, DescriptionBacon} }

\* KeywordClassifier.classify
ClassifyKeywords ==
    /\ kwIn # NotRun
    /\ kwOut = NotRun
    /\ LET text == KeywordText(kwIn.dish_name, kwIn.description)
       IN  \E veg_matches \in Orders(FindAll(VEGETARIAN_KEYWORDS, text, 1)),
              non_veg_matches \in Orders(FindAll(NON_VEGETARIAN_KEYWORDS, text, 1)) :
               kwOut' = KeywordDecision(veg_matches, non_veg_matches)
    /\ UNCHANGED <<kwIn, llmVars, parserVars>>
    /\ UNCHANGED <<apiVars, mcpVars, auxVars>>

(***************************************************************************)
(* API: text parser                                                        *)
(***************************************************************************)
\* a MenuItem as TextParser builds it (description is always None);
\* no category: <<>>
ParsedMenuItem(name, price, category) ==
    [name |-> name, price |-> price, category |-> category]

\* TextParser.SECTION_HEADERS
SECTION_HEADERS ==
    { <<"a", "p", "p", "e", "t", "i", "z", "e", "r", "s">>,
      <<"s", "t", "a", "r", "t", "e", "r", "s">>,
      <<"m", "a", "i", "n", " ", "c", "o", "u", "r", "s", "e", "s">>,
      <<"m", "a", "i", "n", "s">>,
      <<"e", "n", "t", "r", "e", "e", "s">>,
      <<"d", "e", "s", "s", "e", "r", "t", "s">>,
      <<"b", "e", "v", "e", "r", "a", "g", "e", "s">>,
      <<"d", "r", "i", "n", "k", "s">>,
      <<"s", "i", "d", "e", "s">>,
      <<"s", "a", "l", "a", "d", "s">>,
      <<"s", "o", "u", "p", "s">>,
      <<"b", "r", "e", "a", "k", "f", "a", "s", "t">>,
      <<"l", "u", "n", "c", "h">>,
      <<"d", "i", "n", "n", "e", "r">>,
      <<"s", "p", "e", "c", "i", "a", "l", "s">>,
      <<"t", "o", "d", "a", "y", "'", "s", " ", "s", "p", "e", "c", "i", "a", "l", "s">> }

IsUpperLetter(c) == \E k \in 1..26 : UpperLetters[k] = c
IsLowerLetter(c) == \E k \in 1..26 : LowerLetters[k] = c
IsLetter(c) == IsUpperLetter(c) \/ IsLowerLetter(c)

UpperChar(c) ==
    IF IsLowerLetter(c) THEN UpperLetters[CHOOSE k \in 1..26 : LowerLetters[k] = c] ELSE c

\* str.title(): a letter after a non-letter is upper case, any other lower
Title(s) ==
    [i \in 1..Len(s) |->
        IF i = 1 \/ ~IsLetter(s[i - 1]) THEN UpperChar(s[i]) ELSE LowerChar(s[i])]

\* str.isupper(): some upper-case letter and no lower-case letter
IsUpper(s) ==
    /\ \E i \in 1..Len(s) : IsUpperLetter(s[i])
    /\ \A i \in 1..Len(s) : ~IsLowerLetter(s[i])

\* the k-th smallest element of a set of numbers
Nth(S, k) == CHOOSE p \in S : Cardinality({ q \in S : q < p }) = k - 1

\* text.split("\n")
Split(text) ==
    LET cuts == { i \in 1..Len(text) : text[i] = "\n" }
        n == Cardinality(cuts)
    IN  [k \in 1..(n + 1) |->
            SubSeq(text,
                   IF k = 1 THEN 1 ELSE Nth(cuts, k - 1) + 1,
                   IF k = n + 1 THEN Len(text) ELSE Nth(cuts, k) - 1)]

\* len(line.split()): the number of whitespace-separated tokens
TokenCount(line) ==
    Cardinality({ i \in 1..Len(line) :
        ~IsSpace(line[i]) /\ (i = 1 \/ IsSpace(line[i - 1])) })

\* re.sub(r'[:\-_=*#]', '', normalized)
RemovePunctuation(s) ==
    SelectSeq(s, LAMBDA c : c \notin {":", "-", "_", "=", "*", "#"})

\* TextParser._is_section_header
IsSectionHeader(line) ==
    \/ Strip(RemovePunctuation(Strip(Lower(line)))) \in SECTION_HEADERS
    \/ IsUpper(line) /\ TokenCount(line) <= 3

\* s matches \d+(?:,\d{3})*(?:\.\d{1,2})? from its first to its last character
IsPriceNumber(s) ==
    LET stops == { i \in 1..Len(s) : ~IsDigit(s[i]) }
        d == IF stops = {} THEN Len(s) ELSE SetMin(stops) - 1
        rest == SubSeq(s, d + 1, Len(s))
    IN  /\ d >= 1
        /\ \E m \in {0, 2, 3} :
            /\ m <= Len(rest)
            /\ (Len(rest) - m) % 4 = 0
            /\ \A q \in 1..(Len(rest) - m) :
                IF q % 4 = 1 THEN rest[q] = "," ELSE IsDigit(rest[q])
            /\ m > 0 => rest[Len(rest) - m + 1] = "."
            /\ \A q \in (Len(rest) - m + 2)..Len(rest) : IsDigit(rest[q])

\* s matches \d+\.\d{2} from its first to its last character
IsPlainDecimal(s) ==
    /\ Len(s) >= 4
    /\ s[Len(s) - 2] = "."
    /\ \A q \in 1..Len(s) : q # Len(s) - 2 => IsDigit(s[q])

\* the first position from j on that holds no whitespace (Len + 1: none)
SkipSpaces(text, j) ==
    LET rest == { q \in j..Len(text) : ~IsSpace(text[q]) }
    IN  IF rest = {} THEN Len(text) + 1 ELSE SetMin(rest)

\* no match of a price pattern
NoPrice == [found |-> FALSE]

\* a match: its first position (counted from 1) and the captured number
Matched(start, number) == [found |-> TRUE, start |-> start, number |-> number]

\* the longest number from j on that the rest of the pattern accepts: the
\* quantifiers are greedy and give characters back only when the rest fails
LongestNumber(text, start, j, ends) ==
    IF ends = {} THEN NoPrice ELSE Matched(start, SubSeq(text, j, SetMax(ends)))

\* PRICE_PATTERNS[0] at position i: \$\s*(number)
DollarBefore(text, i) ==
    IF text[i] # "$" THEN NoPrice
    ELSE LET j == SkipSpaces(text, i + 1)
         IN  LongestNumber(text, i, j,
                 { e \in j..Len(text) : IsPriceNumber(SubSeq(text, j, e)) })

\* PRICE_PATTERNS[1] at position i: (number)\s*\$
DollarAfter(text, i) ==
    IF ~IsDigit(text[i]) THEN NoPrice
    ELSE LongestNumber(text, i, i,
        { e \in i..Len(text) :
            /\ IsPriceNumber(SubSeq(text, i, e))
            /\ SkipSpaces(text, e + 1) <= Len(text)
            /\ text[SkipSpaces(text, e + 1)] = "$" })

\* the currency codes of PRICE_PATTERNS[2]; the patterns ignore case
CurrencyCodes == { <<"u", "s", "d">>, <<"e", "u", "r">>, <<"g", "b", "p">> }

\* PRICE_PATTERNS[2] at position i: (number)\s*(?:USD|EUR|GBP|usd|eur|gbp)
CurrencyAfter(text, i) ==
    IF ~IsDigit(text[i]) THEN NoPrice
    ELSE LongestNumber(text, i, i,
        { e \in i..Len(text) :
            /\ IsPriceNumber(SubSeq(text, i, e))
            /\ SkipSpaces(text, e + 1) + 2 <= Len(text)
            /\ LET j == SkipSpaces(text, e + 1)
               IN  <<LowerChar(text[j]), LowerChar(text[j + 1]), LowerChar(text[j + 2])>>
                       \in CurrencyCodes })

\* PRICE_PATTERNS[3] at position i: (\d+\.\d{2})\s*$
PlainAtEnd(text, i) ==
    IF ~IsDigit(text[i]) THEN NoPrice
    ELSE LongestNumber(text, i, i,
        { e \in i..Len(text) :
            /\ IsPlainDecimal(SubSeq(text, i, e))
            /\ SkipSpaces(text, e + 1) = Len(text) + 1 })

\* compiled_patterns[k - 1] at position i
PatternAt(k, text, i) ==
    CASE k = 1 -> DollarBefore(text, i)
      [] k = 2 -> DollarAfter(text, i)
      [] k = 3 -> CurrencyAfter(text, i)
      [] k = 4 -> PlainAtEnd(text, i)

\* pattern.search(text): the match at the leftmost position that has one
Search(k, text) ==
    LET hits == { i \in 1..Len(text) : PatternAt(k, text, i).found }
    IN  IF hits = {} THEN NoPrice ELSE PatternAt(k, text, SetMin(hits))

\* float(price_str.replace(",", "")), in thousandths; round(price, 2)
\* changes nothing, the number has at most two decimals
PriceValue(number) ==
    LET plain == SelectSeq(number, LAMBDA c : c # ",")
        dots == { i \in 1..Len(plain) : plain[i] = "." }
        dot == IF dots = {} THEN Len(plain) + 1 ELSE SetMin(dots)
        decimals == SubSeq(plain, dot + 1, Len(plain))
    IN  1000 * DigitsValue(SubSeq(plain, 1, dot - 1))
        + DigitsValue(decimals) * Pow10(3 - Len(decimals))

\* the PriceMatch _find_price builds from a match of a pattern; start is
\* counted from 1
PriceMatch(match) ==
    IF match.found
    THEN [found |-> TRUE, value |-> PriceValue(match.number), start |-> match.start]
    ELSE NoPrice

\* TextParser._find_price: the first pattern of the list that matches
FindPrice(text) ==
    LET matching == { k \in 1..4 : Search(k, text).found }
    IN  PriceMatch(IF matching = {} THEN NoPrice ELSE Search(SetMin(matching), text))

\* re.sub(r'[\.\-_]+$', '', name) and re.sub(r'^[\.\-_]+', '', name)
StripFillers(name) ==
    LET keep == { i \in 1..Len(name) : name[i] \notin {".", "-", "_"} }
    IN  IF keep = {} THEN <<>> ELSE SubSeq(name, SetMin(keep), SetMax(keep))

RECURSIVE CollapseWhitespace(_)
\* re.sub(r'\s+', ' ', name)
CollapseWhitespace(name) ==
    IF name = <<>> THEN <<>>
    ELSE IF Len(name) >= 2 /\ IsSpace(name[1]) /\ IsSpace(name[2])
    THEN CollapseWhitespace(Tail(name))
    ELSE <<IF IsSpace(name[1]) THEN " " ELSE name[1]>> \o CollapseWhitespace(Tail(name))

\* re.sub(r'\*+', '', name)
RemoveStars(name) == SelectSeq(name, LAMBDA c : c # "*")

\* TextParser._clean_name: fillers, then whitespace runs, then stars
CleanName(name) == Strip(RemoveStars(CollapseWhitespace(StripFillers(name))))

\* TextParser._is_valid_dish_name
IsValidDishName(name) ==
    /\ Len(name) >= 3
    /\ ~IsDigits(SelectSeq(name, LAMBDA c : c # " "))
    /\ \E i \in 1..Len(name) : IsLetter(name[i])
    /\ \E i \in 1..Len(name) : \E j \in (i + 1)..Len(name) :
        /\ \A q \in i..j : IsLetter(name[q])
        /\ i = 1 \/ IsSpace(name[i - 1])
        /\ j = Len(name) \/ IsSpace(name[j + 1])

\* _extract_item returns None
NoItem == [extracted |-> FALSE]

\* _extract_item once the price is found or not
ItemAt(line, price_match, category) ==
    IF ~price_match.found THEN NoItem
    ELSE LET name == CleanName(Strip(SubSeq(line, 1, price_match.start - 1)))
         IN  IF Len(name) < 2 THEN NoItem
             ELSE IF ~IsValidDishName(name) THEN NoItem
             ELSE ParsedMenuItem(name, price_match.value, category)

\* TextParser._extract_item
ExtractItem(line, category) == ItemAt(line, FindPrice(line), category)

RECURSIVE ParseLinesHeadersKept(_, _, _)
\* the loop of _parse_single without the test for section headers
ParseLinesHeadersKept(lines, k, current_category) ==
    IF k > Len(lines) THEN <<>>
    ELSE LET line == Strip(lines[k])
         IN  IF line = <<>>
             THEN ParseLinesHeadersKept(lines, k + 1, current_category)
             ELSE LET item == ExtractItem(line, current_category)
                  IN  (IF item = NoItem THEN <<>> ELSE <<item>>)
                      \o ParseLinesHeadersKept(lines, k + 1, current_category)

RECURSIVE ParseLines(_, _, _)
\* the loop of _parse_single from line k on
ParseLines(lines, k, current_category) ==
    IF k > Len(lines) THEN <<>>
    ELSE LET line == Strip(lines[k])
         IN  IF line = <<>>
             THEN ParseLines(lines, k + 1, current_category)
             ELSE IF IsSectionHeader(line)
             THEN ParseLines(lines, k + 1, Title(line))
             ELSE LET item == ExtractItem(line, current_category)
                  IN  (IF item = NoItem THEN <<>> ELSE <<item>>)
                      \o ParseLines(lines, k + 1, current_category)

\* TextParser._parse_single
ParseSingle(text) == ParseLines(Split(text), 1, <<>>)

\* MenuItem.normalized_name
NormalizedName(item) == Strip(Lower(item.name))

RECURSIVE DeduplicateMovingReplaced(_, _, _)
\* a loop that puts a record that replaces a cheaper one at the end
DeduplicateMovingReplaced(all_items, k, seen) ==
    IF k > Len(all_items) THEN seen
    ELSE LET item == all_items[k]
             at == { i \in 1..Len(seen) : NormalizedName(seen[i]) = NormalizedName(item) }
         IN  DeduplicateMovingReplaced(all_items, k + 1,
                 IF at = {} THEN Append(seen, item)
                 ELSE IF item.price > seen[SetMin(at)].price
                 THEN Append(SelectSeq(seen, LAMBDA x : NormalizedName(x) # NormalizedName(item)),
                             item)
                 ELSE seen)

RECURSIVE DeduplicateFrom(_, _, _)
\* the loop of _deduplicate from item k on; seen holds the values of the
\* dictionary in the order their keys were inserted
DeduplicateFrom(all_items, k, seen) ==
    IF k > Len(all_items) THEN seen
    ELSE LET item == all_items[k]
             at == { i \in 1..Len(seen) : NormalizedName(seen[i]) = NormalizedName(item) }
         IN  DeduplicateFrom(all_items, k + 1,
                 IF at = {} THEN Append(seen, item)
                 ELSE IF item.price > seen[SetMin(at)].price
                 THEN [seen EXCEPT ![SetMin(at)] = item]
                 ELSE seen)

\* TextParser._deduplicate
Deduplicate(all_items) == DeduplicateFrom(all_items, 1, <<>>)

RECURSIVE AllItems(_, _)
\* the items of the texts from text i on, in the order parse collects them
AllItems(ocr_texts, i) ==
    IF i > Len(ocr_texts) THEN <<>>
    ELSE ParseSingle(ocr_texts[i]) \o AllItems(ocr_texts, i + 1)

\* TextParser.parse
Parse(ocr_texts) == Deduplicate(AllItems(ocr_texts, 1))

\* lines of OCR text: dishes priced in each of the four formats, one of them
\* in upper case and one with a star, a section header and a number
MenuLines ==
    { <<"G", "r", "e", "e", "k", " ", "S", "a", "l", "a", "d", " ", "$", "9", ".", "9", "9">>,
      <<"G", "R", "E", "E", "K", " ", "S", "A", "L", "A", "D", " ", "$", "1", "0", ".", "0", "0">>,
      <<"G", "r", "e", "e", "k", " ", "*", " ", "S", "a", "l", "a", "d", " ", "$", "9", ".", "5", "0">>,
      <<"g", "r", "e", "e", "k", " ", "s", "a", "l", "a", "d", " ", "1", "2", ".", "5", "0">>,
      <<"*", "*", " ", "D", "e", "s", "s", "e", "r", "t", "s", " ", "*", "*">>,
      <<".", ".", "D", "a", "l", ".", ".", " ", "7", " ", "u", "s", "d">>,
      <<"T", "o", "f", "u", " ", "8", "$">>,
      <<"1", "2", "3", "4", "5", " ", "$", "3">> }

\* the longest menu parsed, in lines
MaxLines == 3

RECURSIVE JoinLines(_)
\* an OCR text: its lines, each ended by a line break
JoinLines(lines) ==
    IF lines = <<>> THEN <<>>
    ELSE Head(lines) \o <<"\n">> \o JoinLines(Tail(lines))

\* the lists of texts parse is called with: no text, one text, or the lines
\* spread over two texts
OcrTexts ==
    { <<>> }
    \cup { <<JoinLines(ls)>> : ls \in SeqsUpTo(MenuLines, MaxLines) \ {<<>>} }
    \cup UNION { { <<JoinLines(SubSeq(ls, 1, k)), JoinLines(SubSeq(ls, k + 1, Len(ls)))>> :
                     k \in 1..(Len(ls) - 1) } :
                 ls \in SeqsUpTo(MenuLines, MaxLines) }

\* TextParser.parse
ParseTexts ==
    /\ parsedItems = NotRun
    /\ parsedItems' = [ran |-> TRUE, items |-> Parse(texts)]
    /\ UNCHANGED <<texts, llmVars, kwVars>>
    /\ UNCHANGED <<apiVars, mcpVars, auxVars>>

(***************************************************************************)
(* API service: _process_images, step by step                              *)
(***************************************************************************)
\* classify_and_calculate: the payload built from the parsed menu items is
\* posted to the MCP server
CallMcp ==
    /\ parsedItems # NotRun
    /\ parsedItems.items # <<>>
    /\ mcpIn = NoInput
    /\ LET menu_items == [i \in 1..Len(parsedItems.items) |->
                             McpItem(parsedItems.items[i].name,
                                     parsedItems.items[i].price)]
       IN  /\ mcpIn' = McpPayload(menu_items, "r1")
           /\ mcpCall' = McpPayload(menu_items, "r1")
    /\ UNCHANGED <<store, req, resp, consumed, usedIds, reviewed>>
    /\ UNCHANGED <<classifications, mcpOut, signals>>
    /\ UNCHANGED unitVars

\* _process_images after the MCP call: the result is stored when it needs
\* review and the response is built from it
Deliver ==
    /\ mcpOut # NoOutput
    /\ ~IsToolError(mcpOut)
    /\ req.op = "none"
    /\ store' = ProcessImagesStore(store, mcpIn.request_id, mcpOut)
    /\ resp' = ProcessImagesResponse(mcpIn.request_id, mcpOut)
    /\ req' = [op |-> "process_menu", request_id |-> mcpIn.request_id,
               corrections |-> <<>>, parsed |-> TRUE,
               menu_items |-> mcpIn.menu_items]
    /\ consumed' = IF IsNeedsReview(mcpOut)
                   THEN consumed \ {mcpIn.request_id} ELSE consumed
    /\ usedIds' = usedIds \cup {mcpIn.request_id}
    /\ UNCHANGED <<reviewed, mcpCall>>
    /\ UNCHANGED <<mcpVars, unitVars>>

(***************************************************************************)
(* MCP server: vector index                                                *)
(***************************************************************************)
\* what _seed_knowledge_base finds at knowledge_base/vegetarian_dishes.json:
\* a document with dishes, no file, a document without dishes, a file that
\* json.load rejects
SeedFiles == {"dishes", "missing", "no_dishes", "unreadable"}

\* RAGService.__init__ over a persistent collection: populated is
\* collection.count() > 0, adds counts the collection.add calls made
RagNew(populated, adds, seed_file) ==
    [initialized |-> FALSE, populated |-> populated, adds |-> adds,
     seed_file |-> seed_file]

\* RAGService._seed_knowledge_base; embeds says whether embed_batch returns.
\* Yields the service, whether collection.add was called, whether it raised.
SeedKnowledgeBase(r, embeds) ==
    CASE r.seed_file \in {"missing", "no_dishes"} ->
             [rag |-> r, added |-> FALSE, raised |-> FALSE]
      [] r.seed_file = "unreadable" ->
             [rag |-> r, added |-> FALSE, raised |-> TRUE]
      [] OTHER ->
             IF embeds
             THEN [rag |-> [r EXCEPT !.populated = TRUE, !.adds = @ + 1],
                   added |-> TRUE, raised |-> FALSE]
             ELSE [rag |-> r, added |-> FALSE, raised |-> TRUE]

\* RAGService.initialize
Initialize(r, embeds) ==
    IF r.initialized
    THEN [rag |-> r, seeding |-> FALSE, added |-> FALSE, raised |-> FALSE]
    ELSE IF r.populated
    THEN [rag |-> [r EXCEPT !.initialized = TRUE],
          seeding |-> FALSE, added |-> FALSE, raised |-> FALSE]
    ELSE LET seeded == SeedKnowledgeBase(r, embeds)
         IN  [rag |-> IF seeded.raised THEN seeded.rag
                      ELSE [seeded.rag EXCEPT !.initialized = TRUE],
              seeding |-> TRUE, added |-> seeded.added, raised |-> seeded.raised]

RagCall(op, query, done, raised, hits) ==
    [op |-> op, query |-> query, seeding |-> done.seeding, added |-> done.added,
     raised |-> raised, hits |-> hits]

NoRagCall ==
    [op |-> "none", query |-> <<>>, seeding |-> FALSE, added |-> FALSE,
     raised |-> FALSE, hits |-> FALSE]

\* lifespan: initialize() at startup, an exception is logged and dropped
RagStartup(embeds) ==
    /\ ragCall.op \in {"none", "restart"}
    /\ LET done == Initialize(rag_service, embeds)
       IN  /\ rag_service' = done.rag
           /\ ragCall' = RagCall("startup", <<>>, done, done.raised, FALSE)
    /\ UNCHANGED <<apiVars, mcpVars, llmVars, kwVars, parserVars, taskVars>>

\* RAGService.search: initialize(), then the query is embedded and the
\* collection queried; embeds and embeds_query say whether embed_batch and
\* embed return
RagSearch(query, embeds, embeds_query) ==
    /\ ragCall.op # "none"
    /\ LET done == Initialize(rag_service, embeds)
       IN  /\ rag_service' = done.rag
           /\ ragCall' = RagCall("search", query, done, done.raised \/ ~embeds_query,
                                 ~done.raised /\ embeds_query /\ done.rag.populated)
    /\ UNCHANGED <<apiVars, mcpVars, llmVars, kwVars, parserVars, taskVars>>

\* the MCP server process is started again: a new RAGService over the
\* collection persisted at chroma_persist_directory
RagRestart ==
    /\ ragCall.op \notin {"none", "restart"}
    /\ rag_service' = RagNew(rag_service.populated, rag_service.adds, rag_service.seed_file)
    /\ ragCall' = [NoRagCall EXCEPT !.op = "restart"]
    /\ UNCHANGED <<apiVars, mcpVars, llmVars, kwVars, parserVars, taskVars>>

(***************************************************************************)
(* API service: /review requests in flight together                        *)
(***************************************************************************)
Tasks == {"t1", "t2"}

NoTask == "none"

TaskIdle ==
    [pc |-> "idle", request_id |-> "none", corrections |-> <<>>,
     stored_result |-> NoReview, response |-> [kind |-> "none", status_code |-> 0]]

\* a handler that runs in a thread of a pool: any task may take a step
MayRunInThread(t) == TRUE

\* submit_review is a coroutine without an await: once it has started no
\* other task of the event loop runs until it returns or raises
MayRun(t) == running \in {NoTask, t}

\* FastAPI has validated the body of a POST /review and scheduled the handler
ReviewArrives(t, request_id, corrections) ==
    /\ task[t].pc = "idle"
    /\ task' = [task EXCEPT ![t] = [TaskIdle EXCEPT !.pc = "ready",
                                                    !.request_id = request_id,
                                                    !.corrections = corrections]]
    /\ UNCHANGED running
    /\ UNCHANGED <<apiVars, mcpVars, llmVars, kwVars, parserVars, ragVars>>

\* submit_review up to review_store.get and the 404 that follows a miss
ReviewGets(t) ==
    /\ task[t].pc = "ready"
    /\ MayRun(t)
    /\ LET stored_result == GetReview(store, task[t].request_id)
       IN  IF stored_result = NoReview
           THEN /\ task' = [task EXCEPT ![t].pc = "done",
                                        ![t].response =
                                            HTTPError(404, "No pending review found")]
                /\ running' = NoTask
           ELSE /\ task' = [task EXCEPT ![t].pc = "got",
                                        ![t].stored_result = stored_result]
                /\ running' = t
    /\ UNCHANGED <<apiVars, mcpVars, llmVars, kwVars, parserVars, ragVars>>

\* submit_review from corrections_map to the return: the items and the total
\* are built from the stored_result read before, then review_store.delete
ReviewReturns(t) ==
    /\ task[t].pc = "got"
    /\ MayRun(t)
    /\ LET vegetarian_items == ReviewItems(task[t].stored_result, task[t].corrections)
       IN  task' = [task EXCEPT ![t].pc = "done",
                                ![t].response =
                                    ProcessMenuResponse(vegetarian_items,
                                                        ReviewTotal(vegetarian_items))]
    /\ store' = DeleteReview(store, task[t].request_id)
    /\ consumed' = consumed \cup {task[t].request_id}
    /\ running' = NoTask
    /\ UNCHANGED <<req, resp, usedIds, reviewed, mcpCall>>
    /\ UNCHANGED <<mcpVars, llmVars, kwVars, parserVars, ragVars>>

\* the vector index and the /review tasks at rest
AuxIdle ==
    /\ rag_service = RagNew(FALSE, 0, "dishes")
    /\ ragCall = NoRagCall
    /\ running = NoTask
    /\ task = [t \in Tasks |-> TaskIdle]

(***************************************************************************)
(* Specifications                                                          *)
(***************************************************************************)
\* the LLM client, the keyword classifier and the parser at rest
UnitIdle ==
    /\ content = NotRun
    /\ llmOut = NotRun
    /\ kwIn = NotRun
    /\ kwOut = NotRun
    /\ texts = <<>>
    /\ parsedItems = NotRun
    /\ AuxIdle

\* the MCP tool at rest
McpIdle ==
    /\ mcpIn = NoInput
    /\ classifications = <<>>
    /\ mcpOut = NoOutput
    /\ signals = <<>>

ApiInit ==
    /\ store = [r \in RequestIds |-> NoReview]
    /\ req = [op |-> "none", request_id |-> "none", corrections |-> <<>>,
              parsed |-> FALSE,
                   menu_items |-> <<>>]
    /\ mcpCall = NoCall
    /\ resp = [kind |-> "none", status_code |-> 0]
    /\ consumed = {}
    /\ usedIds = {}
    /\ reviewed = NoReview

Init ==
    /\ ApiInit
    /\ McpIdle
    /\ UnitIdle

Headers == RequestIds \cup {NoHeader}

\* the interleaved specification sends one correction per review
SessionCorrections == { c \in CorrectionLists : Len(c) = 1 }

Next ==
    \/ \E h \in Headers, m \in SessionMenus :
           \E cls \in [1..Len(m) -> ApiVerdicts] : ProcessMenu(h, m, cls)
    \/ \E h \in Headers : ProcessMenuNoItems(h)
    \/ \E h \in Headers, e \in ProcessMenuErrors : ProcessMenuFails(h, e)
    \/ \E h \in Headers, m \in SessionMenus, e \in McpCallErrors :
           ProcessMenuMcpFails(h, m, e)
    \/ \E h \in Headers, exc \in UnexpectedExceptions : ProcessMenuUnexpected(h, exc)
    \/ \E r \in RequestIds, c \in SessionCorrections : SubmitReview(r, c)
    \/ \E r \in RequestIds : SubmitReviewInvalid(r)

\* the API service under any sequence of /process-menu and /review requests
Spec == Init /\ [][Next]_vars

\* the NeedsReview results the MCP server can return for request_id
PendingReviews(request_id, names) ==
    { out \in UNION { { ExecuteOutput([menu_items |-> m, request_id |-> request_id], cls) :
                          cls \in [1..Len(m) -> ReviewVerdicts] } :
                      m \in ParsedMenus(names) } :
        IsNeedsReview(out) }

ReviewInit ==
    /\ \E p \in PendingReviews("r1", DishNames) :
           store = [r \in RequestIds |-> IF r = "r1" THEN p ELSE NoReview]
    /\ req = [op |-> "none", request_id |-> "none", corrections |-> <<>>,
              parsed |-> FALSE,
                   menu_items |-> <<>>]
    /\ mcpCall = NoCall
    /\ resp = [kind |-> "none", status_code |-> 0]
    /\ consumed = {}
    /\ usedIds = { r \in RequestIds : store[r] # NoReview }
    /\ reviewed = NoReview
    /\ McpIdle
    /\ UnitIdle

ReviewNext ==
    \E r \in RequestIds, c \in CorrectionLists :
        /\ req.op = "none"
        /\ SubmitReview(r, c)

\* the Reconciler as a function: one review submission against each pending
\* review the store can hold
ReviewSpec == ReviewInit /\ [][ReviewNext]_vars

McpInit ==
    /\ ApiInit
    /\ mcpIn \in McpInputs
    /\ classifications = <<>>
    /\ mcpOut = NoOutput
    /\ signals = <<>>
    /\ UnitIdle

McpNext ==
    \/ \E s \in Signals : ClassifyItem(s.llm, s.keyword, s.rag)
    \/ ClassifyItemRagFails
    \/ Respond

\* the MCP tool on each input, the three services answering as they may
McpSpec == McpInit /\ [][McpNext]_vars

\* calls of the MCP tool with one menu item
ItemInputs == { i \in McpInputs : Len(i.menu_items) = 1 }

ItemInit ==
    /\ ApiInit
    /\ mcpIn \in ItemInputs
    /\ classifications = <<>>
    /\ mcpOut = NoOutput
    /\ signals = <<>>
    /\ UnitIdle

ItemNext ==
    \/ \E l \in LlmResults, k \in KeywordResults, r \in RagResults :
           ClassifyItem(l, k, r)
    \/ ClassifyItemRagFails
    \/ Respond

\* _classify_item as a function: one item, every combination of the answers
\* the three services can give
ItemSpec == ItemInit /\ [][ItemNext]_vars

LlmInit ==
    /\ ApiInit
    /\ McpIdle
    /\ content \in ChatReplies
    /\ llmOut = NotRun
    /\ kwIn = NotRun
    /\ kwOut = NotRun
    /\ texts = <<>>
    /\ parsedItems = NotRun
    /\ AuxIdle

\* LLMClassifier.classify as a function of the reply of the chat call
LlmSpec == LlmInit /\ [][Classify]_vars

KeywordInit ==
    /\ ApiInit
    /\ McpIdle
    /\ content = NotRun
    /\ llmOut = NotRun
    /\ kwIn \in KeywordCalls
    /\ kwOut = NotRun
    /\ texts = <<>>
    /\ parsedItems = NotRun
    /\ AuxIdle

\* KeywordClassifier.classify as a function of the dish name and description
KeywordSpec == KeywordInit /\ [][ClassifyKeywords]_vars

ParserInit ==
    /\ ApiInit
    /\ McpIdle
    /\ content = NotRun
    /\ llmOut = NotRun
    /\ kwIn = NotRun
    /\ kwOut = NotRun
    /\ texts \in OcrTexts
    /\ parsedItems = NotRun
    /\ AuxIdle

\* TextParser.parse as a function of the list of OCR texts
ParserSpec == ParserInit /\ [][ParseTexts]_vars

(***************************************************************************)
(* Properties                                                              *)
(***************************************************************************)
\* name and price of each item of a list, in order
NamesAndPrices(items) ==
    [i \in 1..Len(items) |-> <<items[i].name, items[i].price>>]

\* the corrections that address the dish called name: those with its key
Addressing(name, corrections) ==
    { i \in 1..Len(corrections) : NameKey(corrections[i].name) = NameKey(name) }

\* the correction in force for the dish called name is "vegetarian": some
\* correction addresses it and the last one that does says true
ConfirmedBy(name, corrections) ==
    /\ Addressing(name, corrections) # {}
    /\ corrections[SetMax(Addressing(name, corrections))].is_vegetarian

\* r is x rounded to 2 decimal places (either way on an exact tie)
IsRounded2(r, x) ==
    /\ r % 10 = 0
    /\ 2 * (r - x) <= 10
    /\ 2 * (x - r) <= 10

\* the last request was a review that found its PendingReview
ReviewSucceeded ==
    /\ req.op = "review"
    /\ req.corrections # <<>>
    /\ reviewed # NoReview

\* C1: once a review of request id R has returned a Final envelope, every
\* later valid review submission for R is answered 404 (ReviewNotFound), as
\* long as no NeedsReview outcome has been stored for R since.
C1_RepeatReviewNotFound ==
    [][ (req'.op = "review" /\ req'.corrections # <<>> /\ req'.request_id \in consumed)
            => (resp'.kind = "error" /\ resp'.status_code = 404) ]_vars

\* C1 witness: a review of an id whose pending review was consumed earlier,
\* answered 404
C1_Witness ==
    /\ req.op = "review"
    /\ req.corrections # <<>>
    /\ req.request_id \in consumed
    /\ resp.kind = "error"
    /\ resp.status_code = 404

\* C2: a pending review stored under R stays the same until reconciliation
\* deletes it, whatever /process-menu and /review requests arrive (also
\* /process-menu requests that carry R as their X-Request-ID).
C2_PendingReviewNeverReplaced ==
    [][ \A r \in RequestIds :
            store[r] # NoReview =>
                \/ store'[r] = store[r]
                \/ /\ store'[r] = NoReview
                   /\ req'.op = "review"
                   /\ req'.request_id = r
                   /\ resp'.kind = "final" ]_vars

\* C3: a valid review submission whose request id is not in the store is
\* answered 404 and leaves the store as it was, and submit_review fails in
\* no other way: every other submission returns a Final envelope.
C3_UnknownReviewNotFound ==
    [][ (req'.op = "review" /\ req'.corrections # <<>>) =>
            /\ store[req'.request_id] = NoReview =>
                   /\ resp'.kind = "error"
                   /\ resp'.status_code = 404
                   /\ store' = store
            /\ store[req'.request_id] # NoReview => resp'.kind = "final" ]_vars

\* C3 witness: a review of an id that never had a pending review, answered
\* 404 while another pending review is in the store
C3_Witness ==
    /\ req.op = "review"
    /\ req.corrections # <<>>
    /\ req.request_id \notin consumed
    /\ resp.kind = "error"
    /\ resp.status_code = 404
    /\ \E r \in RequestIds : store[r] # NoReview

\* C4: the Final envelope of a reconciliation lists the stored confident
\* items, then the stored uncertain items whose correction in force is true,
\* each group in its stored order; an uncertain item corrected to false or
\* not corrected is left out.
C4_ReconciledItems ==
    ReviewSucceeded =>
        LET Kept(u) == ConfirmedBy(u.name, req.corrections)
        IN  /\ resp.kind = "final"
            /\ NamesAndPrices(resp.vegetarian_items) =
                   NamesAndPrices(reviewed.confident_items)
                   \o NamesAndPrices(SelectSeq(reviewed.uncertain_items, Kept))

\* C4 witness: a reconciliation of a confident item and two uncertain items,
\* one confirmed and one not
C4_Witness ==
    /\ ReviewSucceeded
    /\ reviewed.confident_items # <<>>
    /\ Len(reviewed.uncertain_items) >= 2
    /\ \E i, j \in 1..Len(reviewed.uncertain_items) :
           /\ ConfirmedBy(reviewed.uncertain_items[i].name, req.corrections)
           /\ ~ConfirmedBy(reviewed.uncertain_items[j].name, req.corrections)
    /\ Len(resp.vegetarian_items) = Len(reviewed.confident_items) + 1

RECURSIVE CollapseSpaces(_)
\* a name with each run of spaces shortened to one space
CollapseSpaces(name) ==
    IF Len(name) < 2 THEN name
    ELSE IF IsSpace(name[1]) /\ IsSpace(name[2]) THEN CollapseSpaces(Tail(name))
    ELSE <<name[1]>> \o CollapseSpaces(Tail(name))

\* the normalized name of the glossary: lowercase, trimmed, inner whitespace
\* collapsed
Normalized(name) == CollapseSpaces(Strip(Lower(name)))

\* C5: a correction whose name differs from an uncertain item's name only in
\* letter case, surrounding whitespace or runs of inner whitespace is applied
\* to that item: when every correction with the item's normalized name says
\* vegetarian, the item is in the Final envelope.
C5_NormalizedNameMatch ==
    ReviewSucceeded =>
        \A i \in 1..Len(reviewed.uncertain_items) :
            LET u == reviewed.uncertain_items[i]
                hits == { k \in 1..Len(req.corrections) :
                            Normalized(req.corrections[k].name) = Normalized(u.name) }
            IN  (hits # {} /\ \A k \in hits : req.corrections[k].is_vegetarian) =>
                    \E j \in 1..Len(resp.vegetarian_items) :
                        /\ resp.vegetarian_items[j].name = u.name
                        /\ resp.vegetarian_items[j].price = u.price

\* every uncertain item of the consumed review is confirmed by the corrections
AllConfirmed ==
    \A i \in 1..Len(reviewed.uncertain_items) :
        ConfirmedBy(reviewed.uncertain_items[i].name, req.corrections)

\* C6: when the corrections confirm every uncertain item of a pending review,
\* the total_sum of the Final envelope is the stored partial_sum plus the
\* prices of the confirmed items, rounded to 2 decimal places.
C6_AllConfirmedTotal ==
    (ReviewSucceeded /\ AllConfirmed) =>
        /\ resp.kind = "final"
        /\ IsRounded2(resp.total_sum,
                      reviewed.partial_sum + SumPrices(reviewed.uncertain_items))

\* C6 witness: a reconciliation that confirms both uncertain items of a
\* review which also holds a confident item
C6_Witness ==
    /\ ReviewSucceeded
    /\ AllConfirmed
    /\ Len(reviewed.uncertain_items) = 2
    /\ reviewed.confident_items # <<>>
    /\ reviewed.partial_sum > 0
    /\ resp.total_sum > reviewed.partial_sum

\* C7: every item of a Final envelope the API returns carries a confidence
\* and a reasoning.
C7_FinalItemsCarryConfidence ==
    resp.kind = "final" =>
        \A i \in 1..Len(resp.vegetarian_items) :
            {"confidence", "reasoning"} \subseteq DOMAIN resp.vegetarian_items[i]

\* the tool has answered the call with an envelope
Responded == mcpOut # NoOutput /\ ~IsToolError(mcpOut)

\* the positions of the call's items whose verdict is vegetarian with a
\* confidence at or above the threshold
ConfidentAt ==
    { i \in 1..Len(classifications) :
        /\ classifications[i].is_vegetarian
        /\ classifications[i].confidence >= confidence_threshold }

\* the positions whose verdict has a confidence below the threshold
UncertainAt ==
    { i \in 1..Len(classifications) :
        classifications[i].confidence < confidence_threshold }

\* the positions whose verdict is not vegetarian with a confidence at or above
\* the threshold
DiscardedAt ==
    { i \in 1..Len(classifications) :
        /\ ~classifications[i].is_vegetarian
        /\ classifications[i].confidence >= confidence_threshold }

\* the positions of at, in increasing order
InOrder(at) ==
    SelectSeq([i \in 1..Len(classifications) |-> i], LAMBDA i : i \in at)

\* the confident vegetarian entries of the positions at
ConfidentEntries(at) ==
    [k \in 1..Len(InOrder(at)) |->
        [name |-> mcpIn.menu_items[InOrder(at)[k]].name,
         price |-> mcpIn.menu_items[InOrder(at)[k]].price,
         confidence |-> classifications[InOrder(at)[k]].confidence,
         reasoning |-> classifications[InOrder(at)[k]].reasoning]]

\* the envelope's list of confident vegetarian items
ListedConfident ==
    IF IsNeedsReview(mcpOut) THEN mcpOut.confident_items
    ELSE mcpOut.vegetarian_items

\* the envelope's list of uncertain items (a Final envelope has none)
ListedUncertain ==
    IF IsNeedsReview(mcpOut) THEN mcpOut.uncertain_items ELSE <<>>

\* C8: routing puts each classified item into exactly one class: confident
\* vegetarian iff vegetarian at or above the threshold, uncertain iff below
\* the threshold, discarded iff not vegetarian at or above the threshold; the
\* envelope lists the confident and the uncertain items and no discarded one.
C8_RoutingPartition ==
    Responded =>
        /\ ListedConfident = ConfidentEntries(ConfidentAt)
        /\ NamesAndPrices(ListedUncertain) =
               [k \in 1..Len(InOrder(UncertainAt)) |->
                   <<mcpIn.menu_items[InOrder(UncertainAt)[k]].name,
                     mcpIn.menu_items[InOrder(UncertainAt)[k]].price>>]
        /\ Len(ListedConfident) + Len(ListedUncertain) + Cardinality(DiscardedAt)
               = Len(mcpIn.menu_items)

\* C8 witness: a call with a confident item whose confidence is the threshold
\* itself, a non-vegetarian uncertain item and a discarded item
C8_Witness ==
    /\ Responded
    /\ \E i \in ConfidentAt : classifications[i].confidence = confidence_threshold
    /\ \E i \in UncertainAt : ~classifications[i].is_vegetarian
    /\ DiscardedAt # {}

\* C9: the tool returns a NeedsReview envelope iff at least one item was
\* routed to uncertain; otherwise a Final envelope whose vegetarian_items are
\* exactly the confident vegetarian items.
C9_NeedsReviewIffUncertain ==
    Responded =>
        /\ IsNeedsReview(mcpOut) <=> UncertainAt # {}
        /\ ~IsNeedsReview(mcpOut) =>
               /\ {"vegetarian_items", "total_sum"} \subseteq DOMAIN mcpOut
               /\ mcpOut.vegetarian_items = ConfidentEntries(ConfidentAt)

\* C9 witness: a NeedsReview envelope that also lists a confident item
C9_Witness ==
    /\ Responded
    /\ IsNeedsReview(mcpOut)
    /\ mcpOut.confident_items # <<>>
    /\ UncertainAt # {}

\* the envelope's sum field
SumField ==
    IF IsNeedsReview(mcpOut) THEN mcpOut.partial_sum ELSE mcpOut.total_sum

\* C10: the sum field of every envelope is the sum of the prices of the
\* listed confident vegetarian items rounded to 2 decimal places, and 0 when
\* the list is empty.
C10_SumOfListedPrices ==
    Responded =>
        /\ IsRounded2(SumField, SumPrices(ListedConfident))
        /\ ListedConfident = <<>> => SumField = 0

\* C10 witness: an envelope whose listed prices do not add up to a whole
\* hundredth
C10_Witness ==
    /\ Responded
    /\ Len(ListedConfident) >= 2
    /\ SumPrices(ListedConfident) % 10 # 0
    /\ SumField # SumPrices(ListedConfident)

\* C11: a failure of the Vector Index query for an item is treated as empty
\* evidence: the LLM is still queried, the item still gets a verdict and the
\* classify_and_calculate request does not fail.
C11_VectorIndexFailureTolerated ==
    \A i \in 1..Len(signals) :
        ~signals[i].rag_ok =>
            /\ signals[i].llm # NotQueried
            /\ Len(classifications) >= i
            /\ ~IsToolError(mcpOut)

\* the verdict the fallback order gives to the answers of the Keyword Engine
\* and the Vector Index: <<is_vegetarian, confidence, method>>
FallbackVerdict(keyword, rag) ==
    IF keyword.definite
    THEN <<keyword.is_vegetarian, keyword.confidence, "keyword">>
    ELSE IF rag # <<>> /\ rag[1].similarity_score > 8000
    THEN <<rag[1].is_vegetarian, (8 * rag[1].similarity_score) \div 10, "rag">>
    ELSE <<FALSE, 3000, "default">>

\* C12: when the LLM returns null for an item the failure is not surfaced and
\* the verdict is the keyword verdict if the Keyword Engine is definite, else
\* the top evidence's label with confidence similarity * 0.8 if its
\* similarity is above 0.8, else not vegetarian with confidence 0.3.
C12_LlmFailureFallback ==
    \A i \in 1..Len(classifications) :
        signals[i].llm = NoLlm =>
            /\ ~IsToolError(mcpOut)
            /\ <<classifications[i].is_vegetarian, classifications[i].confidence,
                 classifications[i].method>>
                   = FallbackVerdict(signals[i].keyword, signals[i].rag)

\* C12 witness: an item the LLM failed on and the Keyword Engine does not
\* know, classified from the evidence, in an envelope
C12_Witness ==
    /\ Responded
    /\ \E i \in 1..Len(classifications) :
           /\ signals[i].llm = NoLlm
           /\ ~signals[i].keyword.definite
           /\ classifications[i].method = "rag"
           /\ classifications[i].is_vegetarian
           /\ classifications[i].confidence = 7200

\* C20: when the parser extracts no items, /process-menu returns a Final
\* envelope with no vegetarian_items and total_sum 0, calls no classifier and
\* stores nothing; the classifier is never called with an empty item list.
C20_NoItemsNoClassifier ==
    [][ /\ (req'.op = "process_menu" /\ req'.parsed /\ req'.menu_items = <<>>) =>
               /\ resp' = ProcessMenuResponse(<<>>, 0)
               /\ mcpCall' = NoCall
               /\ store' = store
        /\ mcpCall' # NoCall => mcpCall'.menu_items # <<>> ]_vars

\* C20 witness: a /process-menu request without items answered with the empty
\* Final envelope while a review is pending
C20_Witness ==
    /\ req.op = "process_menu"
    /\ req.parsed
    /\ req.menu_items = <<>>
    /\ resp.kind = "final"
    /\ resp.total_sum = 0
    /\ mcpCall = NoCall
    /\ \E r \in RequestIds : store[r] # NoReview

\* the reply is a JSON object (bare or in a closed fence) with is_vegetarian
\* a boolean, confidence a number between 0 and 1 and reasoning a string
SatisfiesContract(reply) ==
    /\ ~reply.failed
    /\ \E b \in ReplyBodies :
           /\ reply.lines \in { <<JsonLine(b)>>, <<FenceLine, JsonLine(b), FenceLine>> }
           /\ b.t = "object"
           /\ {"is_vegetarian", "confidence", "reasoning"} \subseteq DOMAIN b.fields
           /\ b.fields["is_vegetarian"].t = "bool"
           /\ b.fields["confidence"].t = "number"
           /\ b.fields["confidence"].n >= 0
           /\ b.fields["confidence"].n <= 10000
           /\ b.fields["reasoning"].t = "string"

\* C13: the LLM client returns null for every reply that deviates from the
\* JSON contract (missing field, wrong type, confidence out of range, no
\* object) and a verdict only for a reply that satisfies it.
C13_ContractOrNull ==
    llmOut # NotRun => (llmOut # NoLlm <=> SatisfiesContract(content))

\* word occurs in text as a whole word: no letter, digit or underscore on
\* either side of the occurrence
ContainsWord(text, word) ==
    \E i \in 1..Len(text) :
        /\ i + Len(word) - 1 <= Len(text)
        /\ \A k \in 1..Len(word) : text[i + k - 1] = word[k]
        /\ i > 1 => ~IsWordChar(text[i - 1])
        /\ i + Len(word) - 1 < Len(text) => ~IsWordChar(text[i + Len(word)])

\* some keyword of the dictionary occurs in the query as a whole word
DictionaryMatches(keywords, call) ==
    \E k \in 1..Len(keywords) :
        ContainsWord(KeywordText(call.dish_name, call.description), keywords[k].chars)

MarkerWords ==
    { VEGETARIAN_KEYWORDS[k].chars : k \in {1, 2, 9, 14, 15, 20} }

\* C15: the keyword classifier answers is_vegetarian = True for every dish
\* name that contains a vegetarian marker word (vegetarian, veggie, paneer,
\* mushroom, falafel, hummus), "Veggie Burger" included.
C15_MarkerWordsVegetarian ==
    /\ kwOut # NotRun
    /\ kwIn.description = <<>>
    /\ \E w \in MarkerWords : ContainsWord(Lower(kwIn.dish_name), w)
    => kwOut.definite /\ kwOut.is_vegetarian

\* the dishes of test_egg_based
EggDishes ==
    {DishEggsBenedict, DishVegetableOmelette, DishSpinachFrittata, DishQuicheLorraine}

\* C16: the keyword classifier answers is_vegetarian = True for the egg
\* dishes, also when the name holds no word of either dictionary.
C16_EggDishesVegetarian ==
    /\ kwOut # NotRun
    /\ kwIn.description = <<>>
    /\ kwIn.dish_name \in EggDishes
    => kwOut.definite /\ kwOut.is_vegetarian

\* the non-empty lines of the texts parse was called with
InputLines ==
    UNION { { Strip(Split(texts[t])[k]) : k \in 1..Len(Split(texts[t])) } :
            t \in 1..Len(texts) } \ {<<>>}

\* the name on a priced line: the text in front of the price
LineName(line) == Strip(SubSeq(line, 1, FindPrice(line).start - 1))

\* the priced lines that name a dish
DishLines ==
    { l \in InputLines : FindPrice(l).found /\ IsValidDishName(LineName(l)) }

\* C17: no two items of parse's output have the same normalized name, where
\* normalized is lowercase, trimmed and inner whitespace collapsed; names
\* from which '*' was removed are included.
C17_UniqueNormalizedNames ==
    parsedItems # NotRun =>
        \A i, j \in 1..Len(parsedItems.items) :
            i # j => Normalized(parsedItems.items[i].name)
                         # Normalized(parsedItems.items[j].name)

\* C18: when a dish stands on several priced lines whose names differ only
\* in letter case, in one text or in several, parse returns exactly one item
\* for it, at the greatest of the prices.
C18_CaseDuplicatesKeepMaxPrice ==
    parsedItems # NotRun =>
        \A l \in DishLines :
            LET same == { m \in DishLines : Lower(LineName(m)) = Lower(LineName(l)) }
                found == { i \in 1..Len(parsedItems.items) :
                             Lower(parsedItems.items[i].name) = Lower(LineName(l)) }
            IN  (\E m \in same : LineName(m) # LineName(l)) =>
                    /\ Cardinality(found) = 1
                    /\ \A i \in found :
                        parsedItems.items[i].price
                            = SetMax({ FindPrice(m).value : m \in same })

C21_UnexpectedMessageRedacted ==
    "raised" \in DOMAIN req =>
        /\ resp.status_code = 500
        /\ resp.error = "Internal server error"
        /\ resp.detail # req.raised.message

\* the positions in a list of items at which a normalized name occurs first
FirstAt(all_items) ==
    { i \in 1..Len(all_items) :
        \A j \in 1..(i - 1) : NormalizedName(all_items[j]) # NormalizedName(all_items[i]) }

\* the position of the record deduplication keeps for the name first seen
\* at position i: the first one among those of the greatest price
KeptAt(all_items, i) ==
    LET group == { j \in 1..Len(all_items) :
                     NormalizedName(all_items[j]) = NormalizedName(all_items[i]) }
    IN  SetMin({ j \in group : \A h \in group : all_items[j].price >= all_items[h].price })

\* C25: deduplication keeps for each normalized name the record of the
\* greatest price, the first one when prices tie, and lists the names in the
\* order in which each occurred first in the input.
C25_DeduplicationOrder ==
    parsedItems # NotRun =>
        LET all_items == AllItems(texts, 1)
        IN  /\ Len(parsedItems.items) = Cardinality(FirstAt(all_items))
            /\ \A k \in 1..Len(parsedItems.items) :
                parsedItems.items[k] = all_items[KeptAt(all_items, Nth(FirstAt(all_items), k))]

\* C25 witness: a later, dearer duplicate replaced the first record of the
\* list and a name that came in between stays behind it
C25_Witness ==
    /\ parsedItems # NotRun
    /\ Len(parsedItems.items) >= 2
    /\ LET all_items == AllItems(texts, 1)
       IN  /\ KeptAt(all_items, 1) > Nth(FirstAt(all_items), 2)
           /\ parsedItems.items[1] = all_items[KeptAt(all_items, 1)]

RagInit ==
    /\ ApiInit
    /\ McpIdle
    /\ content = NotRun
    /\ llmOut = NotRun
    /\ kwIn = NotRun
    /\ kwOut = NotRun
    /\ texts = <<>>
    /\ parsedItems = NotRun
    /\ \E populated \in BOOLEAN, seed_file \in SeedFiles :
           rag_service = RagNew(populated, 0, seed_file)
    /\ ragCall = NoRagCall
    /\ running = NoTask
    /\ task = [t \in Tasks |-> TaskIdle]

RagQueries == DishNames \cup {NameOther}

RagNext ==
    \/ \E embeds \in BOOLEAN : RagStartup(embeds)
    \/ \E query \in RagQueries, embeds, embeds_query \in BOOLEAN :
           RagSearch(query, embeds, embeds_query)
    \/ RagRestart

\* the vector index under any sequence of startups, searches and restarts
RagSpec == RagInit /\ [][RagNext]_vars

\* C26: over any sequence of initialize() and search() calls the seed
\* records are added only while the collection is empty and at most once,
\* and after a seeding attempt that left the collection empty the next
\* search() attempts seeding again.
C26_SeedingRetried ==
    [][ /\ ragCall'.added => (~rag_service.populated /\ rag_service.adds = 0)
        /\ (ragCall.seeding /\ ~rag_service.populated /\ ragCall'.op = "search")
               => ragCall'.seeding ]_vars

ConcurrentInit ==
    /\ \E p \in PendingReviews("r1", SessionDishNames) :
           store = [r \in RequestIds |-> IF r = "r1" THEN p ELSE NoReview]
    /\ req = [op |-> "none", request_id |-> "none", corrections |-> <<>>,
              parsed |-> FALSE, menu_items |-> <<>>]
    /\ mcpCall = NoCall
    /\ resp = [kind |-> "none", status_code |-> 0]
    /\ consumed = {}
    /\ usedIds = { r \in RequestIds : store[r] # NoReview }
    /\ reviewed = NoReview
    /\ McpIdle
    /\ UnitIdle

ConcurrentNext ==
    \/ \E t \in Tasks, r \in RequestIds, c \in SessionCorrections : ReviewArrives(t, r, c)
    \/ \E t \in Tasks : ReviewGets(t)
    \/ \E t \in Tasks : ReviewReturns(t)

\* two /review requests in flight on one event loop against a pending review
ConcurrentSpec == ConcurrentInit /\ [][ConcurrentNext]_vars

\* C23: of two review submissions for the same pending request_id, in any
\* interleaving, at most one reads the PendingReview; when both have
\* answered, one returned a Final envelope and the other 404 (not found).
C23_PendingReadAtMostOnce ==
    \A t, u \in Tasks :
        (t # u /\ task[t].request_id = task[u].request_id
               /\ task[t].request_id \in usedIds) =>
            /\ ~(task[t].stored_result # NoReview /\ task[u].stored_result # NoReview)
            /\ (task[t].pc = "done" /\ task[u].pc = "done") =>
                   { task[t].response.status_code, task[u].response.status_code }
                       = {200, 404}

\* C23 witness: both submissions for the pending r1 have answered, the one
\* that arrived second got the Final envelope
C23_Witness ==
    /\ task["t1"].pc = "done" /\ task["t2"].pc = "done"
    /\ task["t1"].request_id = "r1" /\ task["t2"].request_id = "r1"
    /\ task["t2"].response.kind = "final"
    /\ task["t1"].response.status_code = 404
    /\ store["r1"] = NoReview

\* the verdict, confidence and method for an item the LLM answered
LlmVerdict(llm, keyword, rag) ==
    LET conflict == /\ keyword.definite
                    /\ keyword.confidence >= 8000
                    /\ keyword.is_vegetarian # llm.is_vegetarian
        agrees == /\ rag # <<>>
                  /\ rag[1].similarity_score > 7000
                  /\ rag[1].is_vegetarian = llm.is_vegetarian
    IN  IF conflict
        THEN <<llm.is_vegetarian, MinOf(llm.confidence, 6000), "combined">>
        ELSE <<llm.is_vegetarian,
               RoundConf2(IF agrees THEN MinOf(llm.confidence + 1000, 10000)
                          ELSE llm.confidence),
               "llm+rag">>

\* C24: when the LLM succeeded for an item the verdict carries the LLM's
\* is_vegetarian; its confidence is min(LLM.confidence, 0.6) with method
\* combined if the Keyword Engine is definite with confidence >= 0.8 and
\* disagrees, otherwise LLM.confidence, raised by 0.1 and capped at 1.0 iff
\* the top evidence has similarity > 0.7 and the LLM's label, rounded to 2
\* places, with method llm+rag.
C24_LlmVerdict ==
    \A i \in 1..Len(classifications) :
        (signals[i].rag_ok /\ signals[i].llm # NoLlm) =>
            <<classifications[i].is_vegetarian, classifications[i].confidence,
              classifications[i].method>>
                = LlmVerdict(signals[i].llm, signals[i].keyword, signals[i].rag)

\* C24 witness: an LLM verdict whose top evidence agrees at a similarity of
\* exactly 0.7, left without the boost and rounded
C24_Witness ==
    \E i \in 1..Len(classifications) :
        /\ signals[i].rag_ok /\ signals[i].llm # NoLlm
        /\ signals[i].rag # <<>>
        /\ signals[i].rag[1].similarity_score = 7000
        /\ signals[i].rag[1].is_vegetarian = signals[i].llm.is_vegetarian
        /\ classifications[i].method = "llm+rag"
        /\ classifications[i].confidence = 6900
        /\ signals[i].llm.confidence = 6949

\* the positions of the verdicts of the conflict rule and the default rule
WeakAt ==
    { i \in 1..Len(classifications) :
        \/ classifications[i].method = "combined" /\ classifications[i].confidence <= 6000
        \/ classifications[i].method = "default" /\ classifications[i].confidence = 3000 }

CorrectionsOf(items, corrections) ==
    { i \in 1..Len(corrections) :
        \E k \in 1..Len(items) :
            CorrectionKey(items[k].name) = CorrectionKey(corrections[i].name) }

\* C28: corrections affect only uncertain items: every stored confident item
\* is in the reconciled Final envelope, with its price and in place, whatever
\* the corrections say, and every item of the envelope is a stored confident or
\* uncertain item.
C28_CorrectionsTouchUncertainOnly ==
    ReviewSucceeded =>
        /\ resp.kind = "final"
        /\ Len(resp.vegetarian_items) >= Len(reviewed.confident_items)
        /\ \A k \in 1..Len(reviewed.confident_items) :
               /\ resp.vegetarian_items[k].name = reviewed.confident_items[k].name
               /\ resp.vegetarian_items[k].price = reviewed.confident_items[k].price
        /\ \A k \in (Len(reviewed.confident_items) + 1)..Len(resp.vegetarian_items) :
               \E u \in 1..Len(reviewed.uncertain_items) :
                   /\ resp.vegetarian_items[k].name = reviewed.uncertain_items[u].name
                   /\ resp.vegetarian_items[k].price = reviewed.uncertain_items[u].price
        /\ Len(resp.vegetarian_items)
               <= Len(reviewed.confident_items) + Len(reviewed.uncertain_items)

\* C28 witness: a review with a correction that rejects a confident item and
\* a correction that names no stored item; the envelope is the confident items
C28_Witness ==
    /\ ReviewSucceeded
    /\ Len(req.corrections) = 2
    /\ \E i \in CorrectionsOf(reviewed.confident_items, req.corrections) :
           ~req.corrections[i].is_vegetarian
    /\ \E i \in 1..Len(req.corrections) :
           /\ i \notin CorrectionsOf(reviewed.confident_items, req.corrections)
           /\ i \notin CorrectionsOf(reviewed.uncertain_items, req.corrections)
    /\ reviewed.uncertain_items # <<>>
    /\ NamesAndPrices(resp.vegetarian_items) = NamesAndPrices(reviewed.confident_items)

\* C29: every review submission that finds its PendingReview deletes it,
\* also when no correction matches an uncertain item, and an entry leaves
\* the Review Store in no other step than a review submission that found it.
C29_FoundReviewDeleted ==
    [][ /\ (req'.op = "review" /\ req'.corrections # <<>> /\ reviewed' # NoReview)
               => (store'[req'.request_id] = NoReview /\ resp'.kind = "final")
        /\ \A r \in RequestIds :
               (store[r] # NoReview /\ store'[r] = NoReview)
                   => /\ req'.op = "review"
                      /\ req'.request_id = r
                      /\ reviewed' = store[r] ]_vars

\* C29 witness: a review whose only correction names no stored item found
\* the pending review with its uncertain items and left the store without it
C29_Witness ==
    /\ ReviewSucceeded
    /\ reviewed.uncertain_items # <<>>
    /\ CorrectionsOf(reviewed.uncertain_items, req.corrections) = {}
    /\ store[req.request_id] = NoReview
    /\ resp.kind = "final"

\* C30: the Review Store holds an entry for a request_id only if a
\* /process-menu request with that id returned a NeedsReview envelope and no
\* review submission for it has succeeded since: entries appear or change
\* only in such a request, every successful review leaves its id without an
\* entry, and requests that end in a Final envelope or in an error leave the
\* store unchanged.
C30_StoreHoldsPendingOnly ==
    /\ [](\A r \in RequestIds : store[r] # NoReview => r \in usedIds \ consumed)
    /\ [][ /\ \A r \in RequestIds :
                  (store'[r] # NoReview /\ store'[r] # store[r])
                      => /\ req'.op = "process_menu"
                         /\ req'.request_id = r
                         /\ resp'.kind = "needs_review"
                         /\ IsNeedsReview(store'[r])
           /\ (req'.op = "review" /\ resp'.kind = "final")
                  => store'[req'.request_id] = NoReview
           /\ (req'.op = "process_menu" /\ resp'.kind \in {"final", "error"})
                  => store' = store ]_vars

\* C30 witness: a /process-menu that reuses the id of a pending review and
\* ends in a Final envelope has left the entry in the store
C30_Witness ==
    /\ req.op = "process_menu"
    /\ resp.kind = "final"
    /\ resp.vegetarian_items # <<>>
    /\ store[req.request_id] # NoReview

\* the lines of the menus sent through the whole pipeline
PipelineLines ==
    { <<"G", "r", "e", "e", "k", " ", "S", "a", "l", "a", "d", " ", "$", "9", ".", "9", "9">>,
      <<"g", "r", "e", "e", "k", " ", "s", "a", "l", "a", "d", " ", "1", "2", ".", "5", "0">>,
      <<".", ".", "D", "a", "l", ".", ".", " ", "7", " ", "u", "s", "d">>,
      <<"T", "o", "f", "u", " ", "8", "$">> }

\* one or two OCR texts of up to MaxLines lines together
PipelineTexts ==
    { <<JoinLines(ls)>> : ls \in SeqsUpTo(PipelineLines, MaxLines) \ {<<>>} }
    \cup UNION { { <<JoinLines(SubSeq(ls, 1, k)), JoinLines(SubSeq(ls, k + 1, Len(ls)))>> :
                     k \in 1..(Len(ls) - 1) } :
                 ls \in SeqsUpTo(PipelineLines, MaxLines) }

\* a confident vegetarian, an uncertain and a discarded verdict
PipelineSignals ==
    { Signal(LlmResult(TRUE, 9500, "only vegetables"), NoKeyword, <<>>),
      Signal(LlmResult(TRUE, 6949, "may contain stock"), NoKeyword, <<>>),
      Signal(LlmResult(FALSE, 9200, "contains meat"), NoKeyword, <<>>) }

PipelineInit ==
    /\ ApiInit
    /\ McpIdle
    /\ content = NotRun
    /\ llmOut = NotRun
    /\ kwIn = NotRun
    /\ kwOut = NotRun
    /\ texts \in PipelineTexts
    /\ parsedItems = NotRun
    /\ AuxIdle

PipelineNext ==
    \/ ParseTexts
    \/ CallMcp
    \/ \E s \in PipelineSignals : ClassifyItem(s.llm, s.keyword, s.rag)
    \/ Respond
    \/ Deliver

\* one /process-menu request from the OCR texts to the response
PipelineSpec == PipelineInit /\ [][PipelineNext]_vars

\* the normalized names of the items of all texts in reading order
ReadingOrder ==
    LET all_items == AllItems(texts, 1)
    IN  [i \in 1..Len(all_items) |-> NormalizedName(all_items[i])]

\* the position at which the normalized name of a dish name occurs first
\* among the keys (0: nowhere)
Rank(keys, name) ==
    LET at == { i \in 1..Len(keys) : keys[i] = Strip(Lower(name)) }
    IN  IF at = {} THEN 0 ELSE SetMin(at)

\* the names of a list follow each other in first-occurrence order
InFirstOccurrenceOrder(keys, items) ==
    /\ \A i \in 1..Len(items) : Rank(keys, items[i].name) > 0
    /\ \A i \in 1..(Len(items) - 1) :
           Rank(keys, items[i].name) < Rank(keys, items[i + 1].name)

OrderKept(keys) ==
    /\ mcpIn # NoInput =>
           /\ InFirstOccurrenceOrder(keys, mcpIn.menu_items)
           /\ Len(mcpIn.menu_items) = Cardinality({ keys[i] : i \in 1..Len(keys) })
    /\ Responded =>
           /\ InFirstOccurrenceOrder(keys, ListedConfident)
           /\ InFirstOccurrenceOrder(keys, ListedUncertain)
    /\ resp.kind = "final" => InFirstOccurrenceOrder(keys, resp.vegetarian_items)
    /\ resp.kind = "needs_review" =>
           /\ InFirstOccurrenceOrder(keys, resp.confident_items)
           /\ InFirstOccurrenceOrder(keys, resp.uncertain_items)

\* C22: the vegetarian_items of a Final envelope and the confident_items and
\* uncertain_items of a NeedsReview envelope, of the MCP server and of the
\* API service, keep the relative order of the input menu items, which is the
\* order in which the deduplicated names occur first across the OCR texts.
\* Stated of the request once answered: the payload sent and the envelope
\* of the MCP server are then still in mcpIn and mcpOut.
C22_FirstOccurrenceOrder ==
    resp.kind \in {"final", "needs_review"} => OrderKept(ReadingOrder)

\* C22 witness: a Final response of two items whose first item is a dearer
\* duplicate read after the second item
C22_Witness ==
    /\ resp.kind = "final"
    /\ Len(resp.vegetarian_items) = 2
    /\ Len(texts) = 2
    /\ KeptAt(AllItems(texts, 1), 1) > Rank(ReadingOrder, resp.vegetarian_items[2].name)
    /\ resp.vegetarian_items[1].price = AllItems(texts, 1)[KeptAt(AllItems(texts, 1), 1)].price

====
